---- MODULE Spec2Model ----
(***************************************************************************)
(* State-machine model of the office-crossword generators and renderer.    *)
(*                                                                         *)
(* The repository holds several successive generator variants.  Each is    *)
(* modelled as its own pipeline over the same state variables; the         *)
(* variable impl names the pipeline a behaviour runs:                      *)
(*   "proc"  the procedural generator   crossword-core.js 1150-1778        *)
(*   "core"  the class generator        crossword-core.js  407-918         *)
(*   "js"    the consolidated generator crossword.js       124-958         *)
(*   "smart" the words-first generator  crossword-core.js 2025-3522        *)
(* A grid is a sequence of rows, a row a sequence of cells, as the         *)
(* JavaScript arrays are; source index k is sequence index k+1.            *)
(***************************************************************************)
EXTENDS Integers, Sequences, FiniteSets, TLC

VARIABLES
    impl,              \* the pipeline this behaviour runs
    pc,                \* position of the pipeline
    gridSize,          \* gridSize
    cfg,               \* the configuration values the pipeline reads
    crossword,         \* the grid: crossword[row][col]
    placedWords,       \* placedWords / this.placedWords
    blackSquareCount,  \* blackSquareCount
    scan,              \* position of the running loop
    queue,             \* words still to be attempted
    result,            \* what generateCrossword returned or raised
    shown,             \* the numbers the renderer drew, by cell
    words,             \* this.words: the loaded word list
    localPlacedWords   \* localPlacedWords of placeWordsWithSymmetry

vars == <<impl, pc, gridSize, cfg, crossword, placedWords, blackSquareCount,
          scan, queue, result, shown,
                   words, localPlacedWords>>

-----------------------------------------------------------------------------
(* Cells and grids *)

Empty == ""
Block == "#"
\* what JavaScript yields for an array index that holds nothing
Undefined == "undefined"

\* the letters /^[a-z]+$/ admits
Alphabet ==
    {"a", "b", "c", "d", "e", "f", "g", "h", "i", "j", "k", "l", "m", "n",
     "o", "p", "q", "r", "s", "t", "u", "v", "w", "x", "y", "z"}

\* the letters the modelled word lists are written with
Letters == {"a", "b", "c", "d", "e"}

Min(a, b) == IF a < b THEN a ELSE b
Max(a, b) == IF a > b THEN a ELSE b
Abs(a) == IF a < 0 THEN 0 - a ELSE a

\* a grid whose rows are one cell short
NewGridNarrow(n) == [r \in 1..n |-> [c \in 1..(n - 1) |-> Empty]]

\* Array(n).fill().map(() => Array(n).fill(''))
NewGrid(n) == [r \in 1..n |-> [c \in 1..n |-> Empty]]

\* grid[row][col] read; an index outside the array reads undefined
At(g, row, col) ==
    IF row >= 0 /\ row < Len(g)
    THEN IF col >= 0 /\ col < Len(g[row + 1]) THEN g[row + 1][col + 1]
         ELSE Undefined
    ELSE Undefined

\* rowArr[col] = v : an index past the end grows the array, leaving holes;
\* a negative index adds a property and leaves the array as it is
PutRow(rowArr, col, v) ==
    IF col < 0 THEN rowArr
    ELSE IF col < Len(rowArr) THEN [rowArr EXCEPT ![col + 1] = v]
    ELSE [k \in 1..(col + 1) |->
            IF k <= Len(rowArr) THEN rowArr[k]
            ELSE IF k = col + 1 THEN v ELSE Undefined]

\* grid[row][col] = v, for a row that exists
Put(g, row, col, v) ==
    IF row >= 0 /\ row < Len(g)
    THEN [g EXCEPT ![row + 1] = PutRow(g[row + 1], col, v)]
    ELSE g

Cells(n) == (0..(n - 1)) \X (0..(n - 1))

BlockCount(g) ==
    Cardinality({p \in Cells(Len(g)) : At(g, p[1], p[2]) = Block})

NoResult == [kind |-> "none"]

-----------------------------------------------------------------------------
(* Grid predicates the claims are stated with *)

\* the grid is n rows of n cells, each Block, Empty or one letter
WellFormed(g, n) ==
    /\ Len(g) = n
    /\ \A r \in 1..Len(g) :
          /\ Len(g[r]) = n
          /\ \A c \in 1..Len(g[r]) : g[r][c] \in {Block, Empty} \cup Alphabet

\* Block(r,c) <=> Block(n-1-r, n-1-c)
Symmetric(g) ==
    \A p \in Cells(Len(g)) :
        (At(g, p[1], p[2]) = Block)
            <=> (At(g, Len(g) - 1 - p[1], Len(g) - 1 - p[2]) = Block)

\* some 2x2 sub-square is all Block
Has2x2(g) ==
    \E p \in Cells(Len(g) - 1) :
        /\ At(g, p[1], p[2]) = Block
        /\ At(g, p[1], p[2] + 1) = Block
        /\ At(g, p[1] + 1, p[2]) = Block
        /\ At(g, p[1] + 1, p[2] + 1) = Block

Corners(n) == {<<0, 0>>, <<0, n - 1>>, <<n - 1, 0>>, <<n - 1, n - 1>>}

CornerBlocked(g) ==
    \E p \in Corners(Len(g)) : At(g, p[1], p[2]) = Block

\* the four cells one scan step proposes: the cell and its three mirrors
Group(n, i, j) ==
    << <<i, j>>, <<i, n - 1 - j>>, <<n - 1 - i, j>>, <<n - 1 - i, n - 1 - j>> >>

\* the scan position after (i, j) in a nested loop over 0..center-1
NextScan(i, j, center) ==
    IF j + 1 < center THEN <<i, j + 1>> ELSE <<i + 1, 0>>

-----------------------------------------------------------------------------
(* The procedural generator: crossword-core.js 1150-1778 *)

\* grid sizes 5..ProcMaxSize: one odd, one even
ProcMaxSize == 6
ProcSizes == 5..ProcMaxSize
\* blackSquares.percentage, in percent: the default and the documented maximum
ProcPercentages == {18, 20}

\* isValidBlackSquarePlacement(row, col)
ProcIsValidBlackSquarePlacement(g, n, c, row, col) ==
    /\ ~(c.avoidCorners /\ <<row, col>> \in Corners(n))
    /\ ~(/\ c.avoid2x2Blocks
         /\ row > 0
         /\ col > 0
         /\ At(g, row - 1, col) = Block
         /\ At(g, row, col - 1) = Block
         /\ At(g, row - 1, col - 1) = Block)

\* positions.forEach(...) of placeBlackSquares: the positions in order, each
\* placed while the count is under the cap, the cell empty and the check passes
RECURSIVE ProcPlaceGroup(_, _, _, _, _, _)
ProcPlaceGroup(g, count, n, c, positions, k) ==
    IF k > Len(positions) THEN [grid |-> g, count |-> count]
    ELSE LET row == positions[k][1]
             col == positions[k][2]
         IN  IF /\ count < c.maxBlackSquares
                /\ At(g, row, col) = Empty
                /\ ProcIsValidBlackSquarePlacement(g, n, c, row, col)
             THEN ProcPlaceGroup(Put(g, row, col, Block), count + 1, n, c,
                                 positions, k + 1)
             ELSE ProcPlaceGroup(g, count, n, c, positions, k + 1)

ProcConfigs ==
    { [symmetry |-> s, avoidCorners |-> a, avoid2x2Blocks |-> b,
       percentage |-> p, maxBlackSquares |-> 0] :
         s \in BOOLEAN, a \in BOOLEAN, b \in BOOLEAN, p \in ProcPercentages }

\* initializeCrossword: the size and the cap are set from the configuration
InitProc ==
    /\ impl = "proc"
    /\ pc = "start"
    /\ gridSize \in ProcSizes
    /\ \E c \in ProcConfigs :
          cfg = [c EXCEPT !.maxBlackSquares =
                              (gridSize * gridSize * c.percentage) \div 100]
    /\ crossword = << >>
    /\ placedWords = << >>
    /\ blackSquareCount = 0
    /\ scan = <<0, 0>>
    /\ queue = << >>
    /\ result = NoResult
    /\ shown = << >>
    /\ words = << >>
    /\ localPlacedWords = << >>

\* generateCrossword: the reset and initializeGrid()
ProcInitializeGrid ==
    /\ impl = "proc" /\ pc = "start"
    /\ crossword' = NewGrid(gridSize)
    /\ placedWords' = << >>
    /\ blackSquareCount' = 0
    /\ pc' = "blocks"
    /\ UNCHANGED <<impl, gridSize, cfg, scan, queue, result, shown,
                   words, localPlacedWords>>

\* placeBlackSquares, symmetry disabled: it returns at once
ProcBlocksSkipped ==
    /\ impl = "proc" /\ pc = "blocks"
    /\ ~cfg.symmetry
    /\ pc' = "blocksDone"
    /\ UNCHANGED <<impl, gridSize, cfg, crossword, placedWords,
                   blackSquareCount, scan, queue, result, shown,
                   words, localPlacedWords>>

\* placeBlackSquares: the centre cell of an odd grid
ProcPlaceCenter ==
    /\ impl = "proc" /\ pc = "blocks"
    /\ cfg.symmetry
    /\ LET center == gridSize \div 2
           place == gridSize % 2 = 1 /\ blackSquareCount < cfg.maxBlackSquares
       IN  /\ crossword' = IF place THEN Put(crossword, center, center, Block)
                           ELSE crossword
           /\ blackSquareCount' = IF place THEN blackSquareCount + 1
                                  ELSE blackSquareCount
    /\ scan' = <<0, 0>>
    /\ pc' = "scan"
    /\ UNCHANGED <<impl, gridSize, cfg, placedWords, queue, result, shown,
                   words, localPlacedWords>>

\* placeBlackSquares: one (i, j) step of the quadrant scan
ProcScanCell ==
    /\ impl = "proc" /\ pc = "scan"
    /\ scan[1] < gridSize \div 2
    /\ blackSquareCount < cfg.maxBlackSquares
    /\ \E chosen \in BOOLEAN :
          LET placed == ProcPlaceGroup(crossword, blackSquareCount, gridSize,
                            cfg, Group(gridSize, scan[1], scan[2]), 1)
          IN  /\ crossword' = IF chosen THEN placed.grid ELSE crossword
              /\ blackSquareCount' = IF chosen THEN placed.count
                                     ELSE blackSquareCount
    /\ scan' = NextScan(scan[1], scan[2], gridSize \div 2)
    /\ UNCHANGED <<impl, pc, gridSize, cfg, placedWords, queue, result, shown,
                   words, localPlacedWords>>

\* placeBlackSquares: the scan ends at the cap or past the last row
ProcScanEnd ==
    /\ impl = "proc" /\ pc = "scan"
    /\ (scan[1] >= gridSize \div 2 \/ blackSquareCount >= cfg.maxBlackSquares)
    /\ pc' = "blocksDone"
    /\ UNCHANGED <<impl, gridSize, cfg, crossword, placedWords,
                   blackSquareCount, scan, queue, result, shown,
                   words, localPlacedWords>>

NextProc ==
    \/ ProcInitializeGrid
    \/ ProcBlocksSkipped
    \/ ProcPlaceCenter
    \/ ProcScanCell
    \/ ProcScanEnd

SpecProc == InitProc /\ [][NextProc]_vars

-----------------------------------------------------------------------------
(* The consolidated generator: crossword.js 124-958 *)

JsSizes == {4, 5}
\* words.targetCount ranges over 1..JsMaxTargetCount
JsMaxTargetCount == 2
JsTargetCounts == 1..JsMaxTargetCount

\* the loaded word lists tried; a word is a sequence of letters
JsWordLists ==
    { << <<"a", "b", "c", "d", "e">>, <<"c", "a", "b">> >>,
      << <<"a", "b", "c">>, <<"c", "a", "b">>, <<"b", "a", "d">> >>,
      << <<"a", "b", "c", "d">>, <<"d", "a", "b">> >>,
      << <<"a", "b">>, <<"e", "b", "c", "d", "a", "b">>, <<"b", "e", "d">> >> }

\* the fallback list of selectWordsForPuzzle
JsFallbackWords ==
    << <<"c", "r", "o", "s", "s", "w", "o", "r", "d">>,
       <<"p", "u", "z", "z", "l", "e">>, <<"w", "o", "r", "d">>,
       <<"g", "a", "m", "e">>, <<"p", "l", "a", "y">>,
       <<"s", "o", "l", "v", "e">>, <<"c", "l", "u", "e">>,
       <<"a", "n", "s", "w", "e", "r">> >>

\* the values of one for-loop: from, from+step, ... below limit
RECURSIVE StepSeq(_, _, _)
StepSeq(from, limit, step) ==
    IF from < limit THEN <<from>> \o StepSeq(from + step, limit, step)
    ELSE << >>

\* createStrategicPattern: the groups of cells one random draw pushes, in
\* the order the loops visit them
JsPatternUnits(n) ==
    LET A == StepSeq(2, n - 2, 3)
        B == StepSeq(1, n - 1, 4)
        m == Len(A)
    IN  [k \in 1..(m * m) |->
            << <<A[((k - 1) \div m) + 1], A[((k - 1) % m) + 1]>> >>]
        \o [k \in 1..Len(B) |-> << <<0, B[k]>>, <<n - 1, B[k]>> >>]
        \o [k \in 1..Len(B) |-> << <<B[k], 0>>, <<B[k], n - 1>> >>]

\* createStrategicPattern: the pattern when the draws of the set S succeed
RECURSIVE JsPatternOf(_, _, _)
JsPatternOf(units, S, k) ==
    IF k > Len(units) THEN << >>
    ELSE (IF k \in S THEN units[k] ELSE << >>) \o JsPatternOf(units, S, k + 1)

\* placeStrategicBlackSquares: the eight positions, in order
JsStrategicPositions(n) ==
    << <<0, 0>>, <<0, n - 1>>, <<n - 1, 0>>, <<n - 1, n - 1>>,
       <<0, n \div 2>>, <<n \div 2, 0>>, <<n - 1, n \div 2>>,
       <<n \div 2, n - 1>> >>

\* placeStrategicBlackSquares: each position in range and empty becomes '#'
RECURSIVE JsPlaceStrategicBlackSquares(_, _, _, _)
JsPlaceStrategicBlackSquares(g, n, positions, k) ==
    IF k > Len(positions) THEN g
    ELSE LET row == positions[k][1]
             col == positions[k][2]
         IN  IF /\ row >= 0 /\ row < n /\ col >= 0 /\ col < n
                /\ At(g, row, col) = Empty
             THEN JsPlaceStrategicBlackSquares(Put(g, row, col, Block), n,
                                               positions, k + 1)
             ELSE JsPlaceStrategicBlackSquares(g, n, positions, k + 1)

\* wouldCreate2x2Block(row, col): some 2x2 square holding the cell already
\* has three or more '#'
JsWouldCreate2x2Block(g, n, row, col) ==
    \E r \in Max(0, row - 1)..Min(n - 2, row) :
      \E c \in Max(0, col - 1)..Min(n - 2, col) :
        Cardinality({d \in {0, 1} \X {0, 1} :
                        At(g, r + d[1], c + d[2]) = Block}) >= 3

\* wouldIsolateSingleLetter(row, col)
JsWouldIsolateSingleLetter(g, row, col) == FALSE

\* canPlaceBlackSquare(row, col)
JsCanPlaceBlackSquare(g, n, row, col) ==
    /\ ~(row < 0 \/ row >= n \/ col < 0 \/ col >= n)
    /\ ~JsWouldCreate2x2Block(g, n, row, col)
    /\ ~JsWouldIsolateSingleLetter(g, row, col)

\* placeBlackSquares: the loop over the strategic pattern, with its break
RECURSIVE JsPlacePattern(_, _, _, _, _, _)
JsPlacePattern(g, count, n, max, pattern, k) ==
    IF k > Len(pattern) \/ count >= max THEN [grid |-> g, count |-> count]
    ELSE LET row == pattern[k][1]
             col == pattern[k][2]
         IN  IF At(g, row, col) = Empty /\ JsCanPlaceBlackSquare(g, n, row, col)
             THEN JsPlacePattern(Put(g, row, col, Block), count + 1, n, max,
                                 pattern, k + 1)
             ELSE JsPlacePattern(g, count, n, max, pattern, k + 1)

\* Math.floor(gridSize * gridSize * percentage), the percentage in hundredths
JsMaxBlackSquares(n, c) == (n * n * c.percentage) \div 100

JsConfigs ==
    { [percentage |-> 15, avoidCorners |-> a, avoid2x2Blocks |-> TRUE,
       ensureConnectivity |-> TRUE, minLength |-> 3, maxLength |-> 12,
       targetCount |-> t] :
         a \in BOOLEAN, t \in JsTargetCounts }

\* constructor, and the word list loadWordsFromCSV leaves in this.words
InitJS ==
    /\ impl = "js"
    /\ pc = "start"
    /\ gridSize \in JsSizes
    /\ cfg \in JsConfigs
    /\ words \in JsWordLists
    /\ crossword = << >>
    /\ placedWords = << >>
    /\ localPlacedWords = << >>
    /\ blackSquareCount = 0
    /\ scan = <<0, 0>>
    /\ queue = << >>
    /\ result = NoResult
    /\ shown = << >>

\* initializeGrid
JsInitializeGrid ==
    /\ impl = "js" /\ pc = "start"
    /\ crossword' = NewGrid(gridSize)
    /\ placedWords' = << >>
    /\ pc' = "blocks"
    /\ UNCHANGED <<impl, gridSize, cfg, blackSquareCount, scan, queue, result,
                   shown, words, localPlacedWords>>

\* placeBlackSquares: the strategic squares, then the strategic pattern
JsPlaceBlackSquares ==
    /\ impl = "js" /\ pc = "blocks"
    /\ \E S \in SUBSET (1..Len(JsPatternUnits(gridSize))) :
          LET max == JsMaxBlackSquares(gridSize, cfg)
              seeded == JsPlaceStrategicBlackSquares(crossword, gridSize,
                            JsStrategicPositions(gridSize), 1)
              placed == JsPlacePattern(seeded, 0, gridSize, max,
                            JsPatternOf(JsPatternUnits(gridSize), S, 1), 1)
          IN  /\ crossword' = placed.grid
              /\ blackSquareCount' = placed.count
              /\ scan' = <<0, Max(10, max - placed.count)>>
    /\ pc' = "fill"
    /\ UNCHANGED <<impl, gridSize, cfg, placedWords, queue, result, shown,
                   words, localPlacedWords>>

\* placeBlackSquares: one attempt of the random fill; scan = <<attempt,
\* remainingAttempts>>
JsRandomBlackSquare ==
    /\ impl = "js" /\ pc = "fill"
    /\ scan[1] < scan[2]
    /\ blackSquareCount < JsMaxBlackSquares(gridSize, cfg)
    /\ \E row \in 0..(gridSize - 1), col \in 0..(gridSize - 1) :
          LET place == /\ At(crossword, row, col) = Empty
                       /\ JsCanPlaceBlackSquare(crossword, gridSize, row, col)
          IN  /\ crossword' = IF place THEN Put(crossword, row, col, Block)
                              ELSE crossword
              /\ blackSquareCount' = IF place THEN blackSquareCount + 1
                                     ELSE blackSquareCount
    /\ scan' = <<scan[1] + 1, scan[2]>>
    /\ UNCHANGED <<impl, pc, gridSize, cfg, placedWords, queue, result, shown,
                   words, localPlacedWords>>

\* placeBlackSquares: the random fill ends
JsBlackSquaresDone ==
    /\ impl = "js" /\ pc = "fill"
    /\ ~(scan[1] < scan[2]
         /\ blackSquareCount < JsMaxBlackSquares(gridSize, cfg))
    /\ pc' = "anchor"
    /\ scan' = <<0, 0>>
    /\ UNCHANGED <<impl, gridSize, cfg, crossword, placedWords,
                   blackSquareCount, queue, result, shown, words,
                   localPlacedWords>>

\* one insertion of the stable sort by descending length
RECURSIVE InsertByLengthDesc(_, _)
InsertByLengthDesc(sorted, w) ==
    IF sorted = << >> THEN <<w>>
    ELSE IF Len(Head(sorted)) >= Len(w)
         THEN <<Head(sorted)>> \o InsertByLengthDesc(Tail(sorted), w)
         ELSE <<w>> \o sorted

\* list.sort((a, b) => b.length - a.length): stable, longest first
RECURSIVE SortByLengthDesc(_)
SortByLengthDesc(s) ==
    IF s = << >> THEN << >>
    ELSE InsertByLengthDesc(SortByLengthDesc(SubSeq(s, 1, Len(s) - 1)),
                            s[Len(s)])

\* selectWordsForPuzzle
JsSelectWordsForPuzzle(ws, c) ==
    LET InRange(w) == Len(w) >= c.minLength /\ Len(w) <= c.maxLength
        validWords == SelectSeq(ws, InRange)
        sorted == SortByLengthDesc(validWords)
    IN  IF Len(validWords) = 0 THEN JsFallbackWords
        ELSE SubSeq(sorted, 1, Min(c.targetCount * 2, Len(sorted)))

\* selectedWords.find(w => w.length >= 5) || selectedWords[0]
JsCentralWord(selected) ==
    LET Long(w) == Len(w) >= 5
        long == SelectSeq(selected, Long)
    IN  IF long # << >> THEN Head(long) ELSE Head(selected)

\* the letters of a word written along a row or a column
RECURSIVE WriteWord(_, _, _, _, _, _)
WriteWord(g, word, row, col, horizontal, i) ==
    IF i > Len(word) THEN g
    ELSE WriteWord(IF horizontal THEN Put(g, row, col + i - 1, word[i])
                   ELSE Put(g, row + i - 1, col, word[i]),
                   word, row, col, horizontal, i + 1)

PlacedWord(word, row, col, horizontal, number) ==
    [word |-> word, row |-> row, col |-> col, horizontal |-> horizontal,
     number |-> number]

\* canPlaceWordHorizontally(word, row, col)
JsCanPlaceWordHorizontally(g, n, word, row, col) ==
    /\ ~(col + Len(word) > n)
    /\ \A i \in 1..Len(word) :
          LET currentCell == At(g, row, col + i - 1)
          IN  ~(currentCell # Empty /\ currentCell # word[i])

\* canPlaceWordVertically(word, row, col)
JsCanPlaceWordVertically(g, n, word, row, col) ==
    /\ ~(row + Len(word) > n)
    /\ \A i \in 1..Len(word) :
          LET currentCell == At(g, row + i - 1, col)
          IN  ~(currentCell # Empty /\ currentCell # word[i])

\* findIntersection(newWord, existingWord): the list it draws from
JsFindIntersection(g, n, newWord, existingWord) ==
    LET Fits(row, col, horizontal) ==
            \A k \in 0..(Len(newWord) - 1) :
               LET checkRow == IF horizontal THEN row ELSE row + k
                   checkCol == IF horizontal THEN col + k ELSE col
               IN  /\ ~(checkRow < 0 \/ checkRow >= n
                        \/ checkCol < 0 \/ checkCol >= n)
                   /\ ~(At(g, checkRow, checkCol) # Empty
                        /\ At(g, checkRow, checkCol) # newWord[k + 1])
        ew == existingWord
    IN  IF ew.horizontal
        THEN { [row |-> ew.row - j, col |-> ew.col + i, horizontal |-> FALSE] :
                 <<i, j>> \in
                   { x \in (0..(Len(ew.word) - 1)) \X (0..(Len(newWord) - 1)) :
                        /\ newWord[x[2] + 1] = ew.word[x[1] + 1]
                        /\ ew.row - x[2] >= 0
                        /\ ew.row - x[2] + Len(newWord) <= n
                        /\ Fits(ew.row - x[2], ew.col + x[1], FALSE) } }
        ELSE { [row |-> ew.row + i, col |-> ew.col - j, horizontal |-> TRUE] :
                 <<i, j>> \in
                   { x \in (0..(Len(ew.word) - 1)) \X (0..(Len(newWord) - 1)) :
                        /\ newWord[x[2] + 1] = ew.word[x[1] + 1]
                        /\ ew.col - x[2] >= 0
                        /\ ew.col - x[2] + Len(newWord) <= n
                        /\ Fits(ew.row + x[1], ew.col - x[2], TRUE) } }

\* placeWordAtIntersection(word, intersection): whether it places the word
JsCanPlaceAtIntersection(g, n, word, x) ==
    /\ ~(x.row < 0 \/ x.row >= n \/ x.col < 0 \/ x.col >= n)
    /\ x.row + (IF x.horizontal THEN 0 ELSE Len(word) - 1) < Len(g)
    /\ IF x.horizontal THEN ~(x.col + Len(word) > n)
       ELSE ~(x.row + Len(word) > n)
    /\ \A i \in 1..Len(word) :
          LET currentCell == IF x.horizontal THEN At(g, x.row, x.col + i - 1)
                             ELSE At(g, x.row + i - 1, x.col)
          IN  ~(currentCell = Block
                \/ (currentCell # Empty /\ currentCell # word[i]))

\* tryPlaceWordWithIntersections(word, existingWords): the intersections an
\* attempt can end on.  The existing words are visited in order; one is
\* passed when it offers no intersection or the drawn one is refused.
JsIntersectionChoices(g, n, word, existingWords) ==
    LET Passed(m) ==
            \/ JsFindIntersection(g, n, word, existingWords[m]) = {}
            \/ \E y \in JsFindIntersection(g, n, word, existingWords[m]) :
                  ~JsCanPlaceAtIntersection(g, n, word, y)
    IN  UNION { { x \in JsFindIntersection(g, n, word, existingWords[k]) :
                    /\ JsCanPlaceAtIntersection(g, n, word, x)
                    /\ \A m \in 1..(k - 1) : Passed(m) } :
                k \in 1..Len(existingWords) }

\* tryPlaceWordWithIntersections can return null: every attempt passes every
\* existing word
JsIntersectionsCanFail(g, n, word, existingWords) ==
    \A m \in 1..Len(existingWords) :
        \/ JsFindIntersection(g, n, word, existingWords[m]) = {}
        \/ \E y \in JsFindIntersection(g, n, word, existingWords[m]) :
              ~JsCanPlaceAtIntersection(g, n, word, y)

\* Math.floor(Math.random() * k)
RandomBelow(k) == IF k > 0 THEN 0..(k - 1) ELSE k..0

\* tryPlaceWordInEmptySpace: the (row, col, horizontal) one attempt can
\* draw, after the clamp to the grid
JsEmptySpaceDraws(n, word, existingWords) ==
    LET span == n - Len(word)
        Clamp(v) == Max(0, Min(span, v))
        near == IF Len(existingWords) > 0
                THEN { <<existingWords[k].row + d, existingWords[k].col + d>> :
                          k \in 1..Len(existingWords), d \in {-1, 0, 1} }
                ELSE {}
    IN  IF Len(existingWords) > 0
        THEN { [row |-> Clamp(p[1]), col |-> Clamp(c), horizontal |-> TRUE] :
                   p \in near, c \in RandomBelow(span + 1) }
             \cup
             { [row |-> Clamp(r), col |-> Clamp(p[2]), horizontal |-> FALSE] :
                   p \in near, r \in RandomBelow(span + 1) }
        ELSE { [row |-> Clamp(r), col |-> Clamp(c), horizontal |-> h] :
                   r \in RandomBelow(span + 1), c \in RandomBelow(span + 1),
                   h \in BOOLEAN }

\* the check tryPlaceWordInEmptySpace makes on a draw
JsCanPlaceDraw(g, n, word, x) ==
    IF x.horizontal THEN JsCanPlaceWordHorizontally(g, n, word, x.row, x.col)
    ELSE JsCanPlaceWordVertically(g, n, word, x.row, x.col)

\* placeWordsWithSymmetry: the loop that writes the central word, with the
\* bounds test that throws
RECURSIVE JsWriteCentralWord(_, _, _, _, _, _)
JsWriteCentralWord(g, n, word, center, startCol, i) ==
    IF i > Len(word) THEN [grid |-> g, thrown |-> FALSE]
    ELSE LET col == startCol + i - 1
         IN  IF col < 0 \/ col >= n THEN [grid |-> g, thrown |-> TRUE]
             ELSE JsWriteCentralWord(Put(g, center, col, word[i]), n, word,
                                     center, startCol, i + 1)

\* validateFinalGrid: the grid passes
JsValidateFinalGrid(g, n) ==
    /\ Len(g) = n
    /\ \A i \in 1..n :
          /\ i <= Len(g)
          /\ Len(g[i]) = n
          /\ \A j \in 1..n : g[i][j] # Undefined

\* placeWordsWithSymmetry: word selection and the central word
JsPlaceCentralWord ==
    /\ impl = "js" /\ pc = "anchor"
    /\ LET selectedWords == JsSelectWordsForPuzzle(words, cfg)
           centralWord == JsCentralWord(selectedWords)
           center == gridSize \div 2
           startCol == center - (Len(centralWord) \div 2)
           fits == startCol >= 0 /\ startCol + Len(centralWord) <= gridSize
           written == JsWriteCentralWord(crossword, gridSize, centralWord,
                                         center, startCol, 1)
           Other(w) == w # centralWord
       IN  IF fits /\ written.thrown
           THEN /\ crossword' = written.grid
                /\ result' = [kind |-> "error"]
                /\ pc' = "failed"
                /\ UNCHANGED <<localPlacedWords, queue>>
           ELSE /\ crossword' = IF fits THEN written.grid ELSE crossword
                /\ localPlacedWords' =
                      IF fits
                      THEN <<PlacedWord(centralWord, center, startCol, TRUE, 1)>>
                      ELSE << >>
                /\ queue' = SortByLengthDesc(SelectSeq(selectedWords, Other))
                /\ pc' = "words"
                /\ UNCHANGED result
    /\ scan' = <<0, 0>>
    /\ UNCHANGED <<impl, gridSize, cfg, placedWords, blackSquareCount, shown,
                   words>>

\* Math.min(targetCount, 20)
JsMaxWords(c) == Min(c.targetCount, 20)

\* placeWordsWithSymmetry: the next word is placed on an intersection;
\* scan[1] is placedCount
JsPlaceWordWithIntersection ==
    /\ impl = "js" /\ pc = "words"
    /\ queue # << >>
    /\ ~(scan[1] >= JsMaxWords(cfg))
    /\ LET word == Head(queue)
       IN  \E x \in JsIntersectionChoices(crossword, gridSize, word,
                                          localPlacedWords) :
              /\ crossword' = WriteWord(crossword, word, x.row, x.col,
                                        x.horizontal, 1)
              /\ localPlacedWords' =
                    Append(localPlacedWords,
                           PlacedWord(word, x.row, x.col, x.horizontal,
                                      Len(placedWords) + 1))
    /\ queue' = Tail(queue)
    /\ scan' = <<scan[1] + 1, scan[2]>>
    /\ UNCHANGED <<impl, pc, gridSize, cfg, placedWords, blackSquareCount,
                   result, shown, words>>

\* placeWordsWithSymmetry: no intersection, the word goes into empty space
JsPlaceWordInEmptySpace ==
    /\ impl = "js" /\ pc = "words"
    /\ queue # << >>
    /\ ~(scan[1] >= JsMaxWords(cfg))
    /\ LET word == Head(queue)
       IN  /\ JsIntersectionsCanFail(crossword, gridSize, word,
                                     localPlacedWords)
           /\ \E x \in JsEmptySpaceDraws(gridSize, word, localPlacedWords) :
                 /\ JsCanPlaceDraw(crossword, gridSize, word, x)
                 /\ crossword' = WriteWord(crossword, word, x.row, x.col,
                                           x.horizontal, 1)
                 /\ localPlacedWords' =
                       Append(localPlacedWords,
                              PlacedWord(word, x.row, x.col, x.horizontal,
                                         Len(localPlacedWords) + 1))
    /\ queue' = Tail(queue)
    /\ scan' = <<scan[1] + 1, scan[2]>>
    /\ UNCHANGED <<impl, pc, gridSize, cfg, placedWords, blackSquareCount,
                   result, shown, words>>

\* placeWordsWithSymmetry: both tries return null, the word is dropped
JsWordNotPlaced ==
    /\ impl = "js" /\ pc = "words"
    /\ queue # << >>
    /\ ~(scan[1] >= JsMaxWords(cfg))
    /\ LET word == Head(queue)
       IN  /\ JsIntersectionsCanFail(crossword, gridSize, word,
                                     localPlacedWords)
           /\ \E x \in JsEmptySpaceDraws(gridSize, word, localPlacedWords) :
                 ~JsCanPlaceDraw(crossword, gridSize, word, x)
    /\ queue' = Tail(queue)
    /\ UNCHANGED <<impl, pc, gridSize, cfg, crossword, placedWords,
                   blackSquareCount, scan, result, shown, words,
                   localPlacedWords>>

\* placeWordsWithSymmetry returns; validateFinalGrid; generateCrossword
\* returns { grid, words, size } or throws
JsReturnPuzzle ==
    /\ impl = "js" /\ pc = "words"
    /\ (queue = << >> \/ scan[1] >= JsMaxWords(cfg))
    /\ placedWords' = localPlacedWords
    /\ IF JsValidateFinalGrid(crossword, gridSize)
       THEN /\ result' = [kind |-> "puzzle", grid |-> crossword,
                          words |-> localPlacedWords, size |-> gridSize]
            /\ pc' = "done"
       ELSE /\ result' = [kind |-> "error"]
            /\ pc' = "failed"
    /\ UNCHANGED <<impl, gridSize, cfg, crossword, blackSquareCount, scan,
                   queue, shown, words, localPlacedWords>>

\* CrosswordRenderer.isWordStart(row, col, direction)
JsIsWordStart(g, n, row, col, direction) ==
    IF direction = "across"
    THEN /\ (col = 0 \/ At(g, row, col - 1) = Block)
         /\ (col < n - 1 /\ At(g, row, col + 1) # Block)
    ELSE /\ (row = 0 \/ At(g, row - 1, col) = Block)
         /\ (row < n - 1 /\ At(g, row + 1, col) # Block)

\* CrosswordRenderer.shouldShowNumber(row, col)
JsShouldShowNumber(g, n, row, col) ==
    \/ JsIsWordStart(g, n, row, col, "across")
    \/ JsIsWordStart(g, n, row, col, "down")

\* CrosswordRenderer.getCellNumber(row, col): 1 plus the word starts met by
\* the loops r = 0..row, c = 0..col before they arrive at (row, col)
JsGetCellNumber(g, n, row, col) ==
    1 + Cardinality({ p \in (0..row) \X (0..col) :
                        /\ p # <<row, col>>
                        /\ JsShouldShowNumber(g, n, p[1], p[2]) })

\* no number drawn in a cell
NoNumber == 0

\* renderCrossword / createCell: the number drawn in each cell
JsRenderCrossword ==
    /\ impl = "js" /\ pc = "done"
    /\ shown' = [p \in Cells(result.size) |->
                    LET content == At(result.grid, p[1], p[2])
                    IN  IF /\ content # Block
                           /\ content # Empty
                           /\ JsShouldShowNumber(result.grid, result.size,
                                                 p[1], p[2])
                        THEN JsGetCellNumber(result.grid, result.size,
                                             p[1], p[2])
                        ELSE NoNumber]
    /\ pc' = "rendered"
    /\ UNCHANGED <<impl, gridSize, cfg, crossword, placedWords,
                   blackSquareCount, scan, queue, result, words,
                   localPlacedWords>>

NextJS ==
    \/ JsInitializeGrid
    \/ JsPlaceBlackSquares
    \/ JsRandomBlackSquare
    \/ JsBlackSquaresDone
    \/ JsPlaceCentralWord
    \/ JsPlaceWordWithIntersection
    \/ JsPlaceWordInEmptySpace
    \/ JsWordNotPlaced
    \/ JsReturnPuzzle
    \/ JsRenderCrossword

SpecJS == InitJS /\ [][NextJS]_vars

-----------------------------------------------------------------------------
(* The class generator: crossword-core.js 407-918 *)

CoreSizes == {5, 6}
\* blackSquares.percentage in hundredths: the default and a denser setting
CorePercentages == {15, 40}

\* this.words after loadWordsFromCSV
CoreWordLists ==
    { << <<"a", "b", "c", "d">>, <<"c", "a", "b">> >>,
      << <<"a", "b", "c">>, <<"b", "a", "d">> >>,
      << <<"a", "b", "c", "d", "e">>, <<"d", "a", "b">> >>,
      << <<"a", "b", "c", "d", "e", "a">>, <<"b", "e", "d">> >> }

\* the four cells next to a cell
Neighbours(p) ==
    { <<p[1] + 1, p[2]>>, <<p[1] - 1, p[2]>>,
      <<p[1], p[2] + 1>>, <<p[1], p[2] - 1>> }

\* floodFill: the cells of open reached from the cells of frontier
RECURSIVE FloodFill(_, _, _)
FloodFill(open, visited, frontier) ==
    IF frontier = {} THEN visited
    ELSE LET next == { q \in open \ visited :
                          \E p \in frontier : q \in Neighbours(p) }
         IN  FloodFill(open, visited \cup next, next)

\* the count of flood-filled areas over a set of open cells
RECURSIVE CountAreas(_)
CountAreas(open) ==
    IF open = {} THEN 0
    ELSE LET start == CHOOSE p \in open : TRUE
         IN  1 + CountAreas(open \ FloodFill(open, {start}, {start}))

\* the cells that are not '#'
NonBlockCells(g) ==
    { p \in Cells(Len(g)) : At(g, p[1], p[2]) # Block }

\* findIsolatedAreas().length
AreaCount(g) == CountAreas(NonBlockCells(g))

\* isValidBlackSquarePlacement(row, col): at most one area is left
CoreIsValidBlackSquarePlacement(g, row, col) ==
    AreaCount(Put(g, row, col, Block)) <= 1

\* strategicPositions of placeStrategicBlackSquares, in order
CoreStrategicPositions(n) ==
    LET h == n \div 2
    IN  << <<0, 0>>, <<0, n - 1>>, <<n - 1, 0>>, <<n - 1, n - 1>>,
           <<0, h>>, <<h, 0>>, <<n - 1, h>>, <<h, n - 1>>,
           <<h - 1, h - 1>>, <<h - 1, h + 1>>, <<h + 1, h - 1>>,
           <<h + 1, h + 1>> >>

\* placeStrategicBlackSquares: each empty position that passes the check
RECURSIVE CorePlaceStrategicBlackSquares(_, _, _)
CorePlaceStrategicBlackSquares(g, positions, k) ==
    IF k > Len(positions) THEN g
    ELSE LET row == positions[k][1]
             col == positions[k][2]
         IN  IF /\ At(g, row, col) = Empty
                /\ CoreIsValidBlackSquarePlacement(g, row, col)
             THEN CorePlaceStrategicBlackSquares(Put(g, row, col, Block),
                                                 positions, k + 1)
             ELSE CorePlaceStrategicBlackSquares(g, positions, k + 1)

\* positions.forEach(...) of placeBlackSquares
RECURSIVE CorePlaceGroup(_, _, _, _, _)
CorePlaceGroup(g, count, max, positions, k) ==
    IF k > Len(positions) THEN [grid |-> g, count |-> count]
    ELSE LET row == positions[k][1]
             col == positions[k][2]
         IN  IF /\ count < max
                /\ At(g, row, col) = Empty
                /\ CoreIsValidBlackSquarePlacement(g, row, col)
             THEN CorePlaceGroup(Put(g, row, col, Block), count + 1, max,
                                 positions, k + 1)
             ELSE CorePlaceGroup(g, count, max, positions, k + 1)

\* Math.floor(gridSize * gridSize * percentage)
CoreMaxBlackSquares(n, c) == (n * n * c.percentage) \div 100

CoreConfigs ==
    { [percentage |-> p, ensureConnectivity |-> e, minLength |-> 3,
       maxLength |-> 12, targetCount |-> 20] :
         p \in CorePercentages, e \in BOOLEAN }

\* constructor, and the word list loadWordsFromCSV leaves in this.words
InitCore ==
    /\ impl = "core"
    /\ pc = "start"
    /\ gridSize \in CoreSizes
    /\ cfg \in CoreConfigs
    /\ words \in CoreWordLists
    /\ crossword = << >>
    /\ placedWords = << >>
    /\ localPlacedWords = << >>
    /\ blackSquareCount = 0
    /\ scan = <<0, 0>>
    /\ queue = << >>
    /\ result = NoResult
    /\ shown = << >>

\* initializeGrid
CoreInitializeGrid ==
    /\ impl = "core" /\ pc = "start"
    /\ crossword' = NewGrid(gridSize)
    /\ placedWords' = << >>
    /\ pc' = "strategic"
    /\ UNCHANGED <<impl, gridSize, cfg, blackSquareCount, scan, queue, result,
                   shown, words, localPlacedWords>>

\* placeBlackSquares: placeStrategicBlackSquares()
CorePlaceStrategic ==
    /\ impl = "core" /\ pc = "strategic"
    /\ crossword' = CorePlaceStrategicBlackSquares(crossword,
                        CoreStrategicPositions(gridSize), 1)
    /\ blackSquareCount' = 0
    /\ scan' = <<0, 0>>
    /\ pc' = "scan"
    /\ UNCHANGED <<impl, gridSize, cfg, placedWords, queue, result, shown,
                   words, localPlacedWords>>

\* placeBlackSquares: one (i, j) step of the quadrant scan
CoreScanCell ==
    /\ impl = "core" /\ pc = "scan"
    /\ scan[1] < gridSize \div 2
    /\ blackSquareCount < CoreMaxBlackSquares(gridSize, cfg)
    /\ \E chosen \in BOOLEAN :
          LET placed == CorePlaceGroup(crossword, blackSquareCount,
                            CoreMaxBlackSquares(gridSize, cfg),
                            Group(gridSize, scan[1], scan[2]), 1)
          IN  /\ crossword' = IF chosen THEN placed.grid ELSE crossword
              /\ blackSquareCount' = IF chosen THEN placed.count
                                     ELSE blackSquareCount
    /\ scan' = NextScan(scan[1], scan[2], gridSize \div 2)
    /\ UNCHANGED <<impl, pc, gridSize, cfg, placedWords, queue, result, shown,
                   words, localPlacedWords>>

\* placeBlackSquares: the scan ends at the cap or past the last row
CoreScanEnd ==
    /\ impl = "core" /\ pc = "scan"
    /\ ~(scan[1] < gridSize \div 2
         /\ blackSquareCount < CoreMaxBlackSquares(gridSize, cfg))
    /\ pc' = "words"
    /\ UNCHANGED <<impl, gridSize, cfg, crossword, placedWords,
                   blackSquareCount, scan, queue, result, shown, words,
                   localPlacedWords>>

\* the orders [...list].sort(() => Math.random() - 0.5) can leave
Shuffles(s) ==
    { [i \in 1..Len(s) |-> s[f[i]]] :
        f \in { h \in [1..Len(s) -> 1..Len(s)] :
                  \A a, b \in 1..Len(s) : a # b => h[a] # h[b] } }

\* selectWordsForPuzzle: the selections it can return
CoreSelectWordsForPuzzle(ws, c) ==
    LET InRange(w) == Len(w) >= c.minLength /\ Len(w) <= c.maxLength
        filteredWords == SelectSeq(ws, InRange)
    IN  { SubSeq(shuffled, 1, Min(c.targetCount, Len(shuffled))) :
            shuffled \in Shuffles(filteredWords) }

\* a JavaScript value used as a condition
Truthy(x) == x # 0

\* the break test of the placement loop:
\* localPlacedWords.length >= targetCount || 20
CoreStopPlacing(placed, c) == (Len(placed) >= c.targetCount) \/ Truthy(20)

\* placeWordsWithSymmetry: the central word, its rotational counterpart, and
\* the loop over the remaining words, which its break test leaves at once
CorePlaceWordsWithSymmetry ==
    /\ impl = "core" /\ pc = "words"
    /\ \E selectedWords \in CoreSelectWordsForPuzzle(words, cfg) :
          LET centralWord == JsCentralWord(selectedWords)
              center == gridSize \div 2
              wordLength == Len(centralWord)
              startCol == center - (wordLength \div 2)
              fits == startCol >= 0 /\ startCol + wordLength <= gridSize
              symRow == gridSize - 1 - center
              symCol == gridSize - 1 - startCol - wordLength + 1
              symFits == symCol >= 0 /\ symCol + wordLength <= gridSize
              first == WriteWord(crossword, centralWord, center, startCol,
                                 TRUE, 1)
              second == IF symFits
                        THEN WriteWord(first, centralWord, symRow, symCol,
                                       TRUE, 1)
                        ELSE first
              Other(w) == w # centralWord
              remainingWords ==
                  SortByLengthDesc(SelectSeq(selectedWords, Other))
              local == IF fits
                       THEN <<PlacedWord(centralWord, center, startCol, TRUE, 1)>>
                       ELSE << >>
          IN  /\ selectedWords # << >>
              /\ remainingWords = << >> \/ CoreStopPlacing(local, cfg)
              /\ crossword' = IF fits THEN second ELSE crossword
              /\ localPlacedWords' = local
              /\ placedWords' = local
              /\ queue' = remainingWords
    /\ pc' = "connect"
    /\ UNCHANGED <<impl, gridSize, cfg, blackSquareCount, scan, result, shown,
                   words>>

\* ensureGridConnectivity, connectIsolatedAreas and placeBridgeWord change
\* nothing; generateCrossword returns { grid, words, size }
CoreReturnPuzzle ==
    /\ impl = "core" /\ pc = "connect"
    /\ result' = [kind |-> "puzzle", grid |-> crossword,
                  words |-> placedWords, size |-> gridSize]
    /\ pc' = "done"
    /\ UNCHANGED <<impl, gridSize, cfg, crossword, placedWords,
                   blackSquareCount, scan, queue, shown, words,
                   localPlacedWords>>

NextCore ==
    \/ CoreInitializeGrid
    \/ CorePlaceStrategic
    \/ CoreScanCell
    \/ CoreScanEnd
    \/ CorePlaceWordsWithSymmetry
    \/ CoreReturnPuzzle

SpecCore == InitCore /\ [][NextCore]_vars

-----------------------------------------------------------------------------
(* The words-first generator: crossword-core.js 2025-3522 *)

SmartSizes == {5, 7}

\* the word sets selectSmartWordSet hands to generateCrosswordGrid: words of
\* four letters or more that pass isValidEnglishWord
SmartWordSets ==
    { << <<"b", "e", "a", "d">>,
         <<"a", "c", "e", "d">> >>,
      << <<"a", "b", "s", "o", "l", "u", "t", "e">>,
         <<"a", "g", "e", "d">> >>,
      << <<"a", "b", "s", "o", "l", "u", "t", "e">>,
         <<"a", "g", "e", "d">>,
         <<"e", "x", "t", "r", "a">> >>,
      << <<"d", "e", "c", "a", "d", "e">>,
         <<"a", "b", "s", "o", "l", "u", "t", "e">> >>,
      << <<"a", "g", "e", "d">>,
         <<"b", "a", "d", "g", "e">> >>,
      << <<"a", "g", "e", "d">>,
         <<"l", "o", "c", "k">>,
         <<"j", "u", "m", "p">> >> }

\* no placement / no value
Null == [kind |-> "null"]
\* a TypeError raised by reading a cell of a row that does not exist
Thrown == [kind |-> "throw"]

Placement(word, row, col, horizontal) ==
    [kind |-> "placement", word |-> word, row |-> row, col |-> col,
     horizontal |-> horizontal]

\* calculateIntersectionScore(word1, word2, index1, index2), doubled so that
\* the half-lengths stay whole numbers
SmartIntersectionScore2(word1, word2, index1, index2) ==
    LET commonLetters == {"e", "a", "r", "t", "o", "i", "n", "s"}
    IN  (2 * Len(word1) - Abs(2 * index1 - Len(word1)))
        + (2 * Len(word2) - Abs(2 * index2 - Len(word2)))
        + 2 * (Len(word1) + Len(word2))
        + (IF word1[index1 + 1] \in commonLetters THEN 10 ELSE 0)

\* one insertion of the stable sort by descending score
RECURSIVE InsertByScoreDesc(_, _)
InsertByScoreDesc(sorted, x) ==
    IF sorted = << >> THEN <<x>>
    ELSE IF Head(sorted).score >= x.score
         THEN <<Head(sorted)>> \o InsertByScoreDesc(Tail(sorted), x)
         ELSE <<x>> \o sorted

\* intersections.sort((a, b) => b.score - a.score)
RECURSIVE SortByScoreDesc(_)
SortByScoreDesc(s) ==
    IF s = << >> THEN << >>
    ELSE InsertByScoreDesc(SortByScoreDesc(SubSeq(s, 1, Len(s) - 1)),
                           s[Len(s)])

\* findWordIntersections(word1, word2)
SmartFindWordIntersections(word1, word2) ==
    IF Len(word1) < 3 \/ Len(word2) < 3 THEN << >>
    ELSE LET all == [k \in 1..(Len(word1) * Len(word2)) |->
                       LET i == (k - 1) \div Len(word2)
                           j == (k - 1) % Len(word2)
                       IN  [word1Index |-> i, word2Index |-> j,
                            letter |-> word1[i + 1],
                            same |-> word1[i + 1] = word2[j + 1],
                            score |-> SmartIntersectionScore2(word1, word2,
                                                              i, j)]]
             Same(x) == x.same
         IN  SortByScoreDesc(SelectSeq(all, Same))

\* calculateIntersectionPlacement(word, existingWord, intersection)
SmartCalculateIntersectionPlacement(n, word, existingWord, intersection) ==
    IF existingWord.horizontal
    THEN LET newRow == existingWord.row - intersection.word2Index
             newCol == existingWord.col + intersection.word1Index
         IN  IF newRow >= 0 /\ newRow + Len(word) <= n
             THEN Placement(word, newRow, newCol, FALSE)
             ELSE Null
    ELSE LET newRow == existingWord.row + intersection.word1Index
             newCol == existingWord.col - intersection.word2Index
         IN  IF newCol >= 0 /\ newCol + Len(word) <= n
             THEN Placement(word, newRow, newCol, TRUE)
             ELSE Null

\* the bounds test that opens isValidPlacement
SmartInBounds(n, p) ==
    /\ ~(p.row < 0 \/ p.col < 0)
    /\ IF p.horizontal THEN ~(p.col + Len(p.word) > n)
       ELSE ~(p.row + Len(p.word) > n)

\* wouldOverwriteLetters(placement) reads crossword[targetRow][targetCol] of
\* a row that does not exist
SmartOverwriteThrows(g, p) ==
    \E i \in 0..(Len(p.word) - 1) :
        LET targetRow == IF p.horizontal THEN p.row ELSE p.row + i
        IN  targetRow < 0 \/ targetRow >= Len(g)

\* wouldOverwriteLetters(placement)
SmartWouldOverwriteLetters(g, p) ==
    \E i \in 0..(Len(p.word) - 1) :
        LET targetRow == IF p.horizontal THEN p.row ELSE p.row + i
            targetCol == IF p.horizontal THEN p.col + i ELSE p.col
        IN  /\ At(g, targetRow, targetCol) # Empty
            /\ At(g, targetRow, targetCol) # Block

\* wordsOverlap(placement1, placement2)
SmartWordsOverlap(p1, p2) ==
    IF p1.horizontal = p2.horizontal
    THEN IF p1.row = p2.row /\ p1.horizontal
         THEN ~(p1.col + Len(p1.word) <= p2.col
                \/ p2.col + Len(p2.word) <= p1.col)
         ELSE IF p1.col = p2.col /\ ~p1.horizontal
              THEN ~(p1.row + Len(p1.word) <= p2.row
                     \/ p2.row + Len(p2.word) <= p1.row)
              ELSE FALSE
    ELSE FALSE

\* hasMinimumSpacing(placement)
SmartHasMinimumSpacing(placed, p) ==
    /\ ~(Len(p.word) < 3)
    /\ \A k \in 1..Len(placed) :
          LET o == placed[k]
          IN  IF p.horizontal
              THEN ~(/\ o.horizontal
                     /\ Abs(p.row - o.row) <= 1
                     /\ ~(p.col + Len(p.word) - 1 < o.col - 1
                          \/ p.col > o.col + Len(o.word) - 1 + 1))
              ELSE ~(/\ ~o.horizontal
                     /\ Abs(p.col - o.col) <= 1
                     /\ ~(p.row + Len(p.word) - 1 < o.row - 1
                          \/ p.row > o.row + Len(o.word) - 1 + 1))

\* isValidPlacement(placement)
SmartIsValidPlacement(g, n, placed, p) ==
    /\ SmartInBounds(n, p)
    /\ ~SmartWouldOverwriteLetters(g, p)
    /\ \A k \in 1..Len(placed) : ~SmartWordsOverlap(p, placed[k])
    /\ SmartHasMinimumSpacing(placed, p)

\* calculatePlacementScore(placement)
SmartCalculatePlacementScore(n, placed, p) ==
    LET center == n \div 2
    IN  Len(p.word) * 2
        + 10 * Cardinality({k \in 1..Len(placed) :
                               SmartWordsOverlap(p, placed[k])})
        + (n - (Abs(p.row - center) + Abs(p.col - center)))

\* canPlaceBlackSquare(row, col); wouldCreate2x2Block is the same code as in
\* crossword.js
SmartCanPlaceBlackSquare(g, n, row, col) ==
    /\ ~(row < 0 \/ row >= n \/ col < 0 \/ col >= n)
    /\ ~JsWouldCreate2x2Block(g, n, row, col)

\* addBlackSquare(row, col)
SmartAddBlackSquare(g, n, row, col) ==
    IF row >= 0 /\ row < n /\ col >= 0 /\ col < n
       /\ At(g, row, col) = Empty /\ SmartCanPlaceBlackSquare(g, n, row, col)
    THEN Put(g, row, col, Block)
    ELSE g

\* the loop of addWordBoundaries over the letters from index i on; draws is
\* the set of indices whose Math.random() fell below 0.5
RECURSIVE SmartAddSideBlocks(_, _, _, _, _)
SmartAddSideBlocks(g, n, p, draws, i) ==
    IF i >= Len(p.word) THEN g
    ELSE IF i \notin draws THEN SmartAddSideBlocks(g, n, p, draws, i + 1)
    ELSE IF p.horizontal
    THEN LET g1 == IF p.row > 0
                   THEN SmartAddBlackSquare(g, n, p.row - 1, p.col + i)
                   ELSE g
             g2 == IF p.row + 1 < n
                   THEN SmartAddBlackSquare(g1, n, p.row + 1, p.col + i)
                   ELSE g1
         IN  SmartAddSideBlocks(g2, n, p, draws, i + 1)
    ELSE LET g1 == IF p.col > 0
                   THEN SmartAddBlackSquare(g, n, p.row + i, p.col - 1)
                   ELSE g
             g2 == IF p.col + 1 < n
                   THEN SmartAddBlackSquare(g1, n, p.row + i, p.col + 1)
                   ELSE g1
         IN  SmartAddSideBlocks(g2, n, p, draws, i + 1)

\* the two end squares that addWordBoundaries and addBoundaryBlackSquares
\* both add first
SmartAddEndBlocks(g, n, p) ==
    IF p.horizontal
    THEN LET g1 == IF p.col > 0
                   THEN SmartAddBlackSquare(g, n, p.row, p.col - 1) ELSE g
         IN  IF p.col + Len(p.word) < n
             THEN SmartAddBlackSquare(g1, n, p.row, p.col + Len(p.word))
             ELSE g1
    ELSE LET g1 == IF p.row > 0
                   THEN SmartAddBlackSquare(g, n, p.row - 1, p.col) ELSE g
         IN  IF p.row + Len(p.word) < n
             THEN SmartAddBlackSquare(g1, n, p.row + Len(p.word), p.col)
             ELSE g1

\* addWordBoundaries(placement)
SmartAddWordBoundaries(g, n, p, draws) ==
    SmartAddSideBlocks(SmartAddEndBlocks(g, n, p), n, p, draws, 0)

\* placeWord(placement) seats the word, or returns before writing anything
SmartWordFits(n, p) ==
    /\ ~(p.row < 0 \/ p.row >= n \/ p.col < 0 \/ p.col >= n)
    /\ IF p.horizontal THEN ~(p.col + Len(p.word) > n)
       ELSE ~(p.row + Len(p.word) > n)

\* placeWord(placement)
SmartPlaceWord(g, n, p, draws) ==
    IF SmartWordFits(n, p)
    THEN SmartAddWordBoundaries(
             WriteWord(g, p.word, p.row, p.col, p.horizontal, 1), n, p, draws)
    ELSE g

\* isNearExistingWords(placement)
SmartIsNearExistingWords(placed, p) ==
    \E k \in 1..Len(placed) :
        Abs(p.row - placed[k].row) <= 2 /\ Abs(p.col - placed[k].col) <= 2

\* findEmptySpacePlacement(word)
SmartFindEmptySpacePlacement(g, n, placed, word) ==
    LET len == Len(word)
        across == [k \in 1..(n * n) |->
                     Placement(word, (k - 1) \div n, (k - 1) % n, TRUE)]
        down == [k \in 1..(n * n) |->
                   Placement(word, (k - 1) % n, (k - 1) \div n, FALSE)]
        CanPlace(p) ==
            /\ (IF p.horizontal THEN p.col ELSE p.row) <= n - len
            /\ \A i \in 0..(len - 1) :
                  IF p.horizontal THEN At(g, p.row, p.col + i) = Empty
                  ELSE At(g, p.row + i, p.col) = Empty
        Near(p) == SmartIsNearExistingWords(placed, p)
        positions == SelectSeq(across, CanPlace) \o SelectSeq(down, CanPlace)
        preferredPositions == SelectSeq(positions, Near)
    IN  IF Len(preferredPositions) > 0 THEN preferredPositions[1]
        ELSE IF Len(positions) > 0 THEN positions[1]
        ELSE Null

\* one run test of findAdjacentPlacement: the cells from (row, col) on, along
\* the row for a horizontal neighbour and down the column for a vertical one
SmartAdjacentRun(g, n, len, row, col, horizontal) ==
    LET Cell(i) == IF horizontal THEN At(g, row, col + i)
                   ELSE At(g, row + i, col)
        stops == {i \in 0..(len - 1) :
                    Cell(i) # Empty \/ (~horizontal /\ row + i >= n)}
    IN  IF stops = {} THEN "free"
        ELSE LET first == CHOOSE i \in stops : \A j \in stops : i <= j
             IN  IF ~horizontal /\ row + first >= n THEN "throw"
                 ELSE "taken"

\* findAdjacentPlacement(word), from the k-th placed word on
RECURSIVE SmartFindAdjacentPlacement(_, _, _, _, _)
SmartFindAdjacentPlacement(g, n, placed, word, k) ==
    IF k > Len(placed) THEN Null
    ELSE LET pw == placed[k]
             h == pw.horizontal
             firstRow == IF h THEN pw.row - 1 ELSE pw.row
             firstCol == IF h THEN pw.col ELSE pw.col - 1
             secondRow == IF h THEN pw.row + 1 ELSE pw.row
             secondCol == IF h THEN pw.col ELSE pw.col + 1
             first == IF (IF h THEN firstRow >= 0 ELSE firstCol >= 0)
                      THEN SmartAdjacentRun(g, n, Len(word), firstRow,
                                            firstCol, h)
                      ELSE "taken"
             second == IF (IF h THEN secondRow < n ELSE secondCol < n)
                       THEN SmartAdjacentRun(g, n, Len(word), secondRow,
                                             secondCol, h)
                       ELSE "taken"
         IN  IF first = "throw" THEN Thrown
             ELSE IF first = "free"
             THEN Placement(word, firstRow, firstCol, h)
             ELSE IF second = "throw" THEN Thrown
             ELSE IF second = "free"
             THEN Placement(word, secondRow, secondCol, h)
             ELSE SmartFindAdjacentPlacement(g, n, placed, word, k + 1)

\* the placements findBestIntersectionPlacement computes from the k-th placed
\* word on, in the order its two loops visit them
RECURSIVE SmartIntersectionPlacements(_, _, _, _)
SmartIntersectionPlacements(n, placed, word, k) ==
    IF k > Len(placed) THEN << >>
    ELSE LET xs == SmartFindWordIntersections(word, placed[k].word)
             ps == [m \in 1..Len(xs) |->
                      SmartCalculateIntersectionPlacement(n, word, placed[k],
                                                          xs[m])]
             Found(p) == p.kind # "null"
         IN  SelectSeq(ps, Found)
             \o SmartIntersectionPlacements(n, placed, word, k + 1)

\* findBestIntersectionPlacement(word), before the number is assigned
SmartFindBestIntersectionPlacement(g, n, placed, word) ==
    LET ps == SmartIntersectionPlacements(n, placed, word, 1)
        Score(p) == SmartCalculatePlacementScore(n, placed, p)
        Counts(p) == SmartIsValidPlacement(g, n, placed, p) /\ Score(p) > -1
        valid == SelectSeq(ps, Counts)
        best == CHOOSE m \in 1..Len(valid) :
                   \A j \in 1..Len(valid) :
                       /\ Score(valid[j]) <= Score(valid[m])
                       /\ j < m => Score(valid[j]) < Score(valid[m])
        emptySpace == SmartFindEmptySpacePlacement(g, n, placed, word)
    IN  IF \E m \in 1..Len(ps) :
              SmartInBounds(n, ps[m]) /\ SmartOverwriteThrows(g, ps[m])
        THEN Thrown
        ELSE IF Len(valid) > 0 THEN valid[best]
        ELSE IF emptySpace.kind # "null" THEN emptySpace
        ELSE SmartFindAdjacentPlacement(g, n, placed, word, 1)

\* the comparator of renumberWordsSequentially left out: every pair compares
\* equal
SmartCompareNothing(a, b) == 0

\* the comparator of renumberWordsSequentially
SmartComparePosition(a, b) ==
    IF a.row # b.row THEN a.row - b.row ELSE a.col - b.col

\* one insertion of the stable sort by position
RECURSIVE InsertByPosition(_, _)
InsertByPosition(sorted, x) ==
    IF sorted = << >> THEN <<x>>
    ELSE IF SmartComparePosition(Head(sorted), x) <= 0
         THEN <<Head(sorted)>> \o InsertByPosition(Tail(sorted), x)
         ELSE <<x>> \o sorted

\* [...this.placedWords].sort(...)
RECURSIVE SortByPosition(_)
SortByPosition(s) ==
    IF s = << >> THEN << >>
    ELSE InsertByPosition(SortByPosition(SubSeq(s, 1, Len(s) - 1)),
                          s[Len(s)])

\* renumberWordsSequentially()
SmartRenumberWordsSequentially(placed) ==
    LET sortedWords == SortByPosition(placed)
    IN  [k \in 1..Len(sortedWords) |->
           [sortedWords[k] EXCEPT !.number = k]]

\* words.find(w => w.length >= 6) || words[0]
SmartCentralWord(ws) ==
    LET long == {k \in 1..Len(ws) : Len(ws[k]) >= 6}
    IN  IF long = {} THEN ws[1]
        ELSE ws[CHOOSE k \in long : \A j \in long : k <= j]

\* one insertion of the stable sort by ascending length
RECURSIVE InsertByLengthAsc(_, _)
InsertByLengthAsc(sorted, x) ==
    IF sorted = << >> THEN <<x>>
    ELSE IF Len(Head(sorted)) <= Len(x)
         THEN <<Head(sorted)>> \o InsertByLengthAsc(Tail(sorted), x)
         ELSE <<x>> \o sorted

\* sortedWords of generateCrosswordGrid: the words other than the central
\* word, each once, by ascending length
RECURSIVE SmartSortedWords(_, _)
SmartSortedWords(ws, centralWord) ==
    IF ws = << >> THEN << >>
    ELSE LET x == ws[Len(ws)]
             front == SubSeq(ws, 1, Len(ws) - 1)
         IN  IF x = centralWord \/ \E k \in 1..Len(front) : front[k] = x
             THEN SmartSortedWords(front, centralWord)
             ELSE InsertByLengthAsc(SmartSortedWords(front, centralWord), x)

\* blackSquares.percentage, in hundredths
SmartPercentages == {5}

\* Math.floor(gridSize * gridSize * targetPercentage)
SmartTargetCount(n, c) == (n * n * c.percentage) \div 100

SmartConfigs == [percentage : SmartPercentages]

InitSmart ==
    /\ impl = "smart"
    /\ pc = "start"
    /\ gridSize \in SmartSizes
    /\ cfg \in SmartConfigs
    /\ words \in SmartWordSets
    /\ crossword = << >>
    /\ placedWords = << >>
    /\ localPlacedWords = << >>
    /\ blackSquareCount = 0
    /\ scan = <<0, 0>>
    /\ queue = << >>
    /\ result = NoResult
    /\ shown = << >>

\* generateCrosswordGrid, up to the loop over sortedWords
SmartPlaceCentralWord ==
    /\ impl = "smart" /\ pc = "start"
    /\ LET center == gridSize \div 2
           centralWord == SmartCentralWord(words)
           centralCol == Max(0, center - (Len(centralWord) \div 2))
           centralPlacement == Placement(centralWord, center, centralCol, TRUE)
       IN  /\ \E draws \in SUBSET (0..(Len(centralWord) - 1)) :
                 crossword' = SmartPlaceWord(NewGrid(gridSize), gridSize,
                                             centralPlacement, draws)
           /\ placedWords' = <<PlacedWord(centralWord, center, centralCol,
                                          TRUE, 1)>>
           /\ queue' = SmartSortedWords(words, centralWord)
    /\ scan' = <<0, 0>>
    /\ pc' = "words"
    /\ UNCHANGED <<impl, gridSize, cfg, blackSquareCount, result, shown,
                   words, localPlacedWords>>

SmartMaxAttempts == 200

\* the loop over sortedWords has a word left to try
SmartLoopRuns == pc = "words" /\ queue # << >> /\ scan[1] < SmartMaxAttempts

\* one turn of the loop: findBestIntersectionPlacement found a placement
SmartPlaceNextWord ==
    /\ impl = "smart" /\ SmartLoopRuns
    /\ LET word == Head(queue)
           p == SmartFindBestIntersectionPlacement(crossword, gridSize,
                                                   placedWords, word)
       IN  /\ p.kind = "placement"
           /\ \E draws \in SUBSET (0..(Len(word) - 1)) :
                 crossword' = SmartPlaceWord(crossword, gridSize, p, draws)
           /\ placedWords' = Append(placedWords,
                                    PlacedWord(word, p.row, p.col,
                                               p.horizontal,
                                               Len(placedWords) + 1))
    /\ queue' = Tail(queue)
    /\ scan' = <<scan[1] + 1, 0>>
    /\ UNCHANGED <<impl, pc, gridSize, cfg, blackSquareCount, result, shown,
                   words, localPlacedWords>>

\* one turn of the loop: findBestIntersectionPlacement returned null
SmartWordNotPlaced ==
    /\ impl = "smart" /\ SmartLoopRuns
    /\ SmartFindBestIntersectionPlacement(crossword, gridSize, placedWords,
                                          Head(queue)).kind = "null"
    /\ queue' = Tail(queue)
    /\ scan' = <<scan[1] + 1, 0>>
    /\ UNCHANGED <<impl, pc, gridSize, cfg, crossword, placedWords,
                   blackSquareCount, result, shown, words, localPlacedWords>>

\* one turn of the loop: a cell of a row that does not exist was read, and
\* generateCrossword rethrows the TypeError
SmartPlacementThrows ==
    /\ impl = "smart" /\ SmartLoopRuns
    /\ SmartFindBestIntersectionPlacement(crossword, gridSize, placedWords,
                                          Head(queue)).kind = "throw"
    /\ result' = [kind |-> "error", error |-> "TypeError"]
    /\ pc' = "failed"
    /\ UNCHANGED <<impl, gridSize, cfg, crossword, placedWords,
                   blackSquareCount, scan, queue, shown, words,
                   localPlacedWords>>

\* the end of generateCrosswordGrid: renumberWordsSequentially and the test
\* generateCrossword makes of the value returned
SmartFinishGrid ==
    /\ impl = "smart" /\ pc = "words" /\ ~SmartLoopRuns
    /\ placedWords' = SmartRenumberWordsSequentially(placedWords)
    /\ IF Len(placedWords) >= Min(5, Len(words))
       THEN /\ pc' = "boundaries"
            /\ scan' = <<1, 0>>
            /\ result' = result
       ELSE /\ pc' = "failed"
            /\ scan' = scan
            /\ result' = [kind |-> "error",
                          error |-> "Failed to generate valid crossword grid"]
    /\ UNCHANGED <<impl, gridSize, cfg, crossword, blackSquareCount, queue,
                   shown, words, localPlacedWords>>

\* addBoundaryBlackSquares(placedWord) for the next word of the loop in
\* addProfessionalBlackSquares; draw is the index Math.random() picked, or -1
\* when the 20% branch was not taken
SmartAddBoundaryBlackSquares ==
    /\ impl = "smart" /\ pc = "boundaries" /\ scan[1] <= Len(placedWords)
    /\ LET p == placedWords[scan[1]]
       IN  \E draw \in -1..(Len(p.word) - 1) :
              crossword' =
                  LET g == SmartAddEndBlocks(crossword, gridSize, p)
                      row == IF p.horizontal THEN p.row ELSE p.row + draw
                      col == IF p.horizontal THEN p.col + draw ELSE p.col
                  IN  IF draw = -1 THEN g
                      ELSE IF p.horizontal
                      THEN LET g1 == IF row > 0
                                     THEN SmartAddBlackSquare(g, gridSize,
                                                              row - 1, col)
                                     ELSE g
                           IN  IF row < gridSize - 1
                               THEN SmartAddBlackSquare(g1, gridSize,
                                                        row + 1, col)
                               ELSE g1
                      ELSE LET g1 == IF col > 0
                                     THEN SmartAddBlackSquare(g, gridSize,
                                                              row, col - 1)
                                     ELSE g
                           IN  IF col < gridSize - 1
                               THEN SmartAddBlackSquare(g1, gridSize,
                                                        row, col + 1)
                               ELSE g1
    /\ scan' = <<scan[1] + 1, 0>>
    /\ UNCHANGED <<impl, pc, gridSize, cfg, placedWords, blackSquareCount,
                   queue, result, shown, words, localPlacedWords>>

\* fillStrategicBlackSquares starts once every placed word has been visited
SmartBoundariesDone ==
    /\ impl = "smart" /\ pc = "boundaries" /\ scan[1] > Len(placedWords)
    /\ pc' = "fill"
    /\ scan' = <<0, 0>>
    /\ UNCHANGED <<impl, gridSize, cfg, crossword, placedWords,
                   blackSquareCount, queue, result, shown, words,
                   localPlacedWords>>

SmartFillAttempts == 200

\* the cell a draw of fillStrategicBlackSquares may blacken
SmartFillable(g, n, row, col) ==
    At(g, row, col) = Empty /\ SmartCanPlaceBlackSquare(g, n, row, col)

\* one draw of fillStrategicBlackSquares; scan[1] is attempts
SmartFillDraw ==
    /\ impl = "smart" /\ pc = "fill"
    /\ BlockCount(crossword) < SmartTargetCount(gridSize, cfg)
    /\ scan[1] < SmartFillAttempts
    /\ \E p \in Cells(gridSize) :
          crossword' = IF SmartFillable(crossword, gridSize, p[1], p[2])
                       THEN Put(crossword, p[1], p[2], Block)
                       ELSE crossword
    /\ scan' = <<scan[1] + 1, 0>>
    /\ UNCHANGED <<impl, pc, gridSize, cfg, placedWords, blackSquareCount,
                   queue, result, shown, words, localPlacedWords>>

\* the loop of fillStrategicBlackSquares is over and generateCrossword returns
SmartReturnPuzzle ==
    /\ impl = "smart" /\ pc = "fill"
    /\ ~(BlockCount(crossword) < SmartTargetCount(gridSize, cfg)
         /\ scan[1] < SmartFillAttempts)
    /\ result' = [kind |-> "puzzle", grid |-> crossword,
                  words |-> placedWords, size |-> gridSize]
    /\ pc' = "done"
    /\ UNCHANGED <<impl, gridSize, cfg, crossword, placedWords,
                   blackSquareCount, scan, queue, shown, words,
                   localPlacedWords>>

NextSmart ==
    \/ SmartPlaceCentralWord
    \/ SmartPlaceNextWord
    \/ SmartWordNotPlaced
    \/ SmartPlacementThrows
    \/ SmartFinishGrid
    \/ SmartAddBoundaryBlackSquares
    \/ SmartBoundariesDone
    \/ SmartFillDraw
    \/ SmartReturnPuzzle

SpecSmart == InitSmart /\ [][NextSmart]_vars

-----------------------------------------------------------------------------
(* crossword.js from the word file on: loadWordsFromCSV, then the pipeline *)

\* the words of the records of the word file, after trim and toLowerCase
JsSuppliedWords ==
    { << <<"a", "b", "c", "d", "e">>, <<"c", "a", "b">>, <<"a", "b">> >>,
      << <<"a", "b", "c", "d", "e">>, <<"e", "b", "c", "d", "a", "b">> >>,
      << <<"a", "b">>, <<"a", "1", "c">> >> }

\* words.maxLength: the default and a short setting
JsMaxLengths == {4, 12}

\* grid.size: the smallest size of the configured range and one below it
JsLoadSizes == {4, 5}

JsLoadConfigs ==
    { [percentage |-> 15, minPercentage |-> 15, maxPercentage |-> 20,
       minSize |-> 5, maxSize |-> 21,
       avoidCorners |-> FALSE, avoid2x2Blocks |-> TRUE,
       ensureConnectivity |-> TRUE, minLength |-> 3, maxLength |-> m,
       targetCount |-> 1] : m \in JsMaxLengths }

\* /^[a-z]+$/.test(word)
IsAlphabetic(w) == Len(w) > 0 /\ \A i \in 1..Len(w) : w[i] \in Alphabet

\* constructor; words holds the records of the word file
InitJSLoad ==
    /\ impl = "js"
    /\ pc = "load"
    /\ gridSize \in JsLoadSizes
    /\ cfg \in JsLoadConfigs
    /\ words \in JsSuppliedWords
    /\ crossword = << >>
    /\ placedWords = << >>
    /\ localPlacedWords = << >>
    /\ blackSquareCount = 0
    /\ scan = <<0, 0>>
    /\ queue = << >>
    /\ result = NoResult
    /\ shown = << >>

\* loadWordsFromCSV: the records kept in this.words, or the error thrown when
\* none is kept
JsLoadWordsFromCSV ==
    /\ impl = "js" /\ pc = "load"
    /\ LET Kept(w) == Len(w) >= cfg.minLength /\ IsAlphabetic(w)
           loaded == SelectSeq(words, Kept)
       IN  /\ words' = loaded
           /\ IF Len(loaded) = 0
              THEN /\ result' = [kind |-> "error",
                                 error |-> "No valid words loaded from CSV"]
                   /\ pc' = "failed"
              ELSE /\ result' = result
                   /\ pc' = "start"
    /\ UNCHANGED <<impl, gridSize, cfg, crossword, placedWords,
                   blackSquareCount, scan, queue, shown, localPlacedWords>>

NextJSLoad == JsLoadWordsFromCSV \/ NextJS

SpecJSLoad == InitJSLoad /\ [][NextJSLoad]_vars

-----------------------------------------------------------------------------
(* The word loader of the words-first generator: crossword-core.js 2079-2163 *)

Vowels == {"a", "e", "i", "o", "u"}
\* [bcdfghjklmnpqrstvwxyz]
Consonants == Alphabet \ Vowels

\* the regular expression [S]{k,} finds a match somewhere in w
HasRun(w, S, k) ==
    \E i \in 1..(Len(w) - k + 1) : \A j \in i..(i + k - 1) : w[j] \in S

\* isValidEnglishWord(word)
SmartIsValidEnglishWord(w) ==
    /\ ~(Len(w) < 3)
    /\ \E i \in 1..Len(w) : w[i] \in Vowels
    /\ ~(\A i \in 1..Len(w) : w[i] \in Consonants)
    /\ ~(Len(w) >= 2 /\ \A i \in 1..Len(w) : w[i] = w[1])
    /\ ~(Len(w) >= 4 /\ \A i \in 1..Len(w) : w[i] \in Consonants)
    /\ ~HasRun(w, Consonants, 5)
    /\ ~(Len(w) >= 3 /\ \A i \in 1..Len(w) : w[i] \in Vowels)
    /\ ~HasRun(w, Vowels, 4)
    /\ ~(\E m \in 3..Len(w) :
            /\ \A i \in 1..m : w[i] \in Consonants
            /\ (m = Len(w) \/ (m = Len(w) - 1 /\ w[Len(w)] \in Vowels)))
    /\ ~(Len(w) >= 3 /\ \A i \in (Len(w) - 2)..Len(w) : w[i] \in Consonants)

\* the characters of the words of the word file
SmartRawLetters == {"a", "e", "b", "1"}
SmartRawMaxLen == 6
SmartRawWords == UNION { [1..k -> SmartRawLetters] : k \in 2..SmartRawMaxLen }

\* constructor; queue holds the records of the word file still to be read
InitSmartLoad ==
    /\ impl = "smartload"
    /\ pc = "load"
    /\ gridSize = 5
    /\ cfg = [minLength |-> 3, maxLength |-> 5]
    /\ words = << >>
    /\ queue \in { <<w>> : w \in SmartRawWords }
    /\ crossword = << >>
    /\ placedWords = << >>
    /\ localPlacedWords = << >>
    /\ blackSquareCount = 0
    /\ scan = <<0, 0>>
    /\ result = NoResult
    /\ shown = << >>

\* loadWordsFromCSV: one turn of the loop over the records
SmartLoadRecord ==
    /\ impl = "smartload" /\ pc = "load" /\ queue # << >>
    /\ LET word == Head(queue)
       IN  words' = IF /\ Len(word) >= cfg.minLength
                       /\ Len(word) <= cfg.maxLength
                       /\ IsAlphabetic(word)
                       /\ SmartIsValidEnglishWord(word)
                    THEN Append(words, word)
                    ELSE words
    /\ queue' = Tail(queue)
    /\ UNCHANGED <<impl, pc, gridSize, cfg, crossword, placedWords,
                   blackSquareCount, scan, result, shown, localPlacedWords>>

NextSmartLoad == SmartLoadRecord

SpecSmartLoad == InitSmartLoad /\ [][NextSmartLoad]_vars

-----------------------------------------------------------------------------
(* CrosswordApp: overlapping generateCrossword calls on one generator.  The
   calls of one page run on one thread: a call is suspended only inside
   loadWordsFromCSV, and what follows each resumption runs to its end before
   another call moves.  result holds the state of the calls. *)

Calls == {1, 2}

\* the identity of the array this.crossword refers to, counted in runs of
\* initializeGrid: each run of initializeGrid assigns a new array to
\* this.crossword and to this.placedWords
AllocShared(res, p) == 0

Alloc(res, p) ==
    Cardinality({c \in Calls :
                    res.calls[c].at \in {"returned", "rendered", "failed"}})
    + (IF p \in {"idle", "start"} THEN 0 ELSE 1)

\* the grid a returned puzzle refers to: the array this.crossword still
\* refers to, or the array as it was when this.crossword was reassigned
PuzzleGrid(res, p, cw, c) ==
    IF res.calls[c].ref = Alloc(res, p) THEN cw ELSE res.calls[c].grid

\* the words a returned puzzle refers to, likewise
PuzzleWords(res, p, pw, c) ==
    IF res.calls[c].ref = Alloc(res, p) THEN pw ELSE res.calls[c].words

\* one generator for the page; file holds the records of the word file
InitJSApp ==
    /\ impl = "js"
    /\ pc = "idle"
    /\ gridSize = 4
    /\ cfg = [percentage |-> 15, avoidCorners |-> FALSE,
              avoid2x2Blocks |-> TRUE, ensureConnectivity |-> TRUE,
              minLength |-> 3, maxLength |-> 12, targetCount |-> 1]
    /\ words = << >>
    /\ crossword = << >>
    /\ placedWords = << >>
    /\ localPlacedWords = << >>
    /\ blackSquareCount = 0
    /\ scan = <<0, 0>>
    /\ queue = << >>
    /\ shown = << >>
    /\ result = [kind |-> "app",
                 file |-> << <<"a", "b", "c">>, <<"c", "a", "b">>,
                             <<"a", "b">> >>,
                 calls |-> [c \in Calls |->
                              [at |-> "idle", overlapped |-> FALSE, ref |-> 0,
                               grid |-> << >>, words |-> << >>]]]

\* CrosswordApp.generateCrossword up to the fetch of loadWordsFromCSV, where
\* the call is suspended
AppGenerateCrossword(c) ==
    /\ impl = "js" /\ pc = "idle"
    /\ result.calls[c].at = "idle"
    /\ result' = [result EXCEPT
                    !.calls[c].at = "fetch",
                    !.calls[c].overlapped =
                        \E d \in Calls : result.calls[d].at = "fetch"]
    /\ UNCHANGED <<impl, pc, gridSize, cfg, crossword, placedWords,
                   blackSquareCount, scan, queue, shown, words,
                   localPlacedWords>>

\* loadWordsFromCSV after the response has arrived
AppLoadWordsFromCSV(c) ==
    /\ impl = "js" /\ pc = "idle"
    /\ result.calls[c].at = "fetch"
    /\ LET Kept(w) == Len(w) >= cfg.minLength /\ IsAlphabetic(w)
       IN  words' = SelectSeq(result.file, Kept)
    /\ result' = [result EXCEPT
                    !.calls[c].at = IF words' = << >> THEN "failed"
                                    ELSE "loaded"]
    /\ UNCHANGED <<impl, pc, gridSize, cfg, crossword, placedWords,
                   blackSquareCount, scan, queue, shown, localPlacedWords>>

\* generateCrossword resumes after await this.loadWordsFromCSV()
AppResume(c) ==
    /\ impl = "js" /\ pc = "idle"
    /\ result.calls[c].at = "loaded"
    /\ result' = [result EXCEPT !.calls[c].at = "run"]
    /\ pc' = "start"
    /\ UNCHANGED <<impl, gridSize, cfg, crossword, placedWords,
                   blackSquareCount, scan, queue, shown, words,
                   localPlacedWords>>

\* placeWordsWithSymmetry returns; validateFinalGrid; generateCrossword
\* returns { grid: this.crossword, words: this.placedWords, size } or throws
AppReturnPuzzle(c) ==
    /\ impl = "js" /\ pc = "words"
    /\ result.calls[c].at = "run"
    /\ (queue = << >> \/ scan[1] >= JsMaxWords(cfg))
    /\ placedWords' = localPlacedWords
    /\ result' = IF JsValidateFinalGrid(crossword, gridSize)
                 THEN [result EXCEPT
                         !.calls[c].at = "returned",
                         !.calls[c].ref = Alloc(result, pc),
                         !.calls[c].grid = crossword,
                         !.calls[c].words = localPlacedWords]
                 ELSE [result EXCEPT !.calls[c].at = "failed"]
    /\ pc' = "idle"
    /\ localPlacedWords' = << >>
    /\ queue' = << >>
    /\ scan' = <<0, 0>>
    /\ blackSquareCount' = 0
    /\ UNCHANGED <<impl, gridSize, cfg, crossword, shown, words>>

\* CrosswordApp.generateCrossword resumes with the puzzle: renderCrossword
AppRenderCrossword(c) ==
    /\ impl = "js" /\ pc = "idle"
    /\ result.calls[c].at = "returned"
    /\ LET grid == PuzzleGrid(result, pc, crossword, c)
       IN  shown' = [p \in Cells(gridSize) |->
                       LET content == At(grid, p[1], p[2])
                       IN  IF /\ content # Block
                              /\ content # Empty
                              /\ JsShouldShowNumber(grid, gridSize, p[1], p[2])
                           THEN JsGetCellNumber(grid, gridSize, p[1], p[2])
                           ELSE NoNumber]
    /\ result' = [result EXCEPT !.calls[c].at = "rendered"]
    /\ UNCHANGED <<impl, pc, gridSize, cfg, crossword, placedWords,
                   blackSquareCount, scan, queue, words, localPlacedWords>>

NextJSApp ==
    \/ \E c \in Calls : AppGenerateCrossword(c)
    \/ \E c \in Calls : AppLoadWordsFromCSV(c)
    \/ \E c \in Calls : AppResume(c)
    \/ JsInitializeGrid
    \/ JsPlaceBlackSquares
    \/ JsRandomBlackSquare
    \/ JsBlackSquaresDone
    \/ JsPlaceCentralWord
    \/ JsPlaceWordWithIntersection
    \/ JsPlaceWordInEmptySpace
    \/ JsWordNotPlaced
    \/ \E c \in Calls : AppReturnPuzzle(c)
    \/ \E c \in Calls : AppRenderCrossword(c)

SpecJSApp == InitJSApp /\ [][NextJSApp]_vars

-----------------------------------------------------------------------------
(* The procedural generator from the word file on: crossword-core.js
   1186-1260.  What one call of generateCrossword builds in the grid is the
   subject of SpecProc; here the calls themselves are followed. *)

\* files.fallbackWords
ProcFallbackWords ==
    << <<"d", "e", "s", "k">>, <<"c", "h", "a", "i", "r">>,
       <<"p", "h", "o", "n", "e">>,
       <<"c", "o", "m", "p", "u", "t", "e", "r">>,
       <<"p", "r", "i", "n", "t", "e", "r">>, <<"p", "a", "p", "e", "r">>,
       <<"p", "e", "n">>, <<"p", "e", "n", "c", "i", "l">> >>

\* the lines of the word file after the header row, trimmed
ProcFileLines == { << >>, <<"a", "b">>, <<"a", "b", "c">>,
                   <<"a", "b", "c", "d", "e", "a">> }
ProcFiles == { << >> } \cup { <<l>> : l \in ProcFileLines }
                 \cup { <<l, m>> : l \in ProcFileLines, m \in ProcFileLines }

\* the elements of the page the functions look up by id
ProcPageElements ==
    {"loading-indicator", "crossword-container", "clues-container"}

\* grid.size: the smallest size, and a value no grid has
ProcLoadSizes == {5, 0 - 1}

\* how one call generateCrossword() ends: the early return on an empty word
\* list; the TypeError of getElementById(...).innerHTML on a page without the
\* element; the RangeError of Array(gridSize) in findIsolatedAreas, reached
\* through ensureGridConnectivity after the words are placed; or the render
ProcGenerateCrossword(ws, c, n) ==
    IF Len(ws) = 0 THEN [ran |-> FALSE, thrown |-> FALSE]
    ELSE IF ~({"crossword-container", "clues-container"} \subseteq c.elements)
         THEN [ran |-> FALSE, thrown |-> TRUE]
    ELSE IF c.ensureConnectivity /\ c.fillEmptyCells /\ n < 0
         THEN [ran |-> TRUE, thrown |-> TRUE]
    ELSE [ran |-> TRUE, thrown |-> FALSE]

\* result after one more call of generateCrossword with the outcome out
ProcCalled(res, out) ==
    [res EXCEPT !.started = @ + 1,
                !.pipelines = IF out.ran THEN @ + 1 ELSE @]

\* initializeCrossword up to loadWordsFromCSV(); queue holds the lines of the
\* word file
InitProcLoad ==
    /\ impl = "procload"
    /\ pc = "fetch"
    /\ gridSize \in ProcLoadSizes
    /\ \E ok \in BOOLEAN, els \in SUBSET ProcPageElements :
          cfg = [minLength |-> 3, maxLength |-> 5,
                 ensureConnectivity |-> TRUE, fillEmptyCells |-> TRUE,
                 fallbackWords |-> ProcFallbackWords,
                 fetchOk |-> ok, elements |-> els]
    /\ queue \in ProcFiles
    /\ words = << >>
    /\ result = [kind |-> "load", started |-> 0, pipelines |-> 0]
    /\ crossword = << >>
    /\ placedWords = << >>
    /\ localPlacedWords = << >>
    /\ blackSquareCount = 0
    /\ scan = <<0, 0>>
    /\ shown = << >>

\* loadWordsFromCSV: the fetch, and on a good response the lines kept in words
\* and the loading indicator hidden
ProcLoadWordsFromCSV ==
    /\ impl = "procload" /\ pc = "fetch"
    /\ LET Kept(w) == /\ Len(w) > 0
                      /\ Len(w) >= cfg.minLength
                      /\ Len(w) <= cfg.maxLength
       IN  IF cfg.fetchOk
           THEN /\ words' = SelectSeq(queue, Kept)
                /\ pc' = IF "loading-indicator" \in cfg.elements
                         THEN "try" ELSE "catch"
           ELSE /\ words' = words
                /\ pc' = "catch"
    /\ queue' = << >>
    /\ UNCHANGED <<impl, gridSize, cfg, crossword, placedWords,
                   blackSquareCount, scan, result, shown, localPlacedWords>>

\* loadWordsFromCSV: generateCrossword() as the last statement of the try
\* block
ProcTryGenerate ==
    /\ impl = "procload" /\ pc = "try"
    /\ LET out == ProcGenerateCrossword(words, cfg, gridSize)
       IN  /\ result' = ProcCalled(result, out)
           /\ pc' = IF out.thrown THEN "catch" ELSE "done"
    /\ UNCHANGED <<impl, gridSize, cfg, crossword, placedWords,
                   blackSquareCount, scan, queue, shown, words,
                   localPlacedWords>>

\* loadWordsFromCSV: the catch block, words = config.getFallbackWords() and
\* generateCrossword()
ProcCatchGenerate ==
    /\ impl = "procload" /\ pc = "catch"
    /\ words' = cfg.fallbackWords
    /\ LET out == ProcGenerateCrossword(cfg.fallbackWords, cfg, gridSize)
       IN  /\ result' = ProcCalled(result, out)
           /\ pc' = IF out.thrown THEN "rejected" ELSE "done"
    /\ UNCHANGED <<impl, gridSize, cfg, crossword, placedWords,
                   blackSquareCount, scan, queue, shown, localPlacedWords>>

NextProcLoad ==
    \/ ProcLoadWordsFromCSV
    \/ ProcTryGenerate
    \/ ProcCatchGenerate

SpecProcLoad == InitProcLoad /\ [][NextProcLoad]_vars

-----------------------------------------------------------------------------
(* CrosswordConfig: crossword.js 11-122.  Objects live in a heap, a function
   from object identities to objects, so that two properties holding the
   same object are told apart from two properties holding equal copies. *)

\* the objects the constructor builds
ConfigObjects == {"this.config", "this.defaultConfig", "@grid", "@words"}

\* what the walk of get yields when a key is not found
Missing == "missing"

\* constructor: defaultConfig, and config = { ...this.defaultConfig }, a copy
\* of the top level whose properties hold the same nested objects
ConfigHeap ==
    [o \in ConfigObjects |->
        CASE o = "@grid" -> [size |-> "15", type |-> "daily"]
          [] o = "@words" -> [targetCount |-> "20"]
          [] OTHER -> [grid |-> "@grid", words |-> "@words",
                       difficulty |-> "medium"]]

\* the updates tried: a dotted key, split at the dots, and a value
ConfigUpdates ==
    { <<p, v>> : p \in { <<"grid", "size">> }, v \in {"5", "15", "21"} }
      \cup { <<p, v>> : p \in { <<"grid", "type">> },
                        v \in {"daily", "sunday"} }
      \cup { <<p, v>> : p \in { <<"words", "targetCount">> },
                        v \in {"10", "20", "30"} }
      \cup { <<p, v>> : p \in { <<"difficulty">> },
                        v \in {"easy", "medium", "hard"} }
      \cup { <<p, v>> : p \in { <<"theme", "name">> },
                        v \in {"office", "garden"} }

ConfigPaths == { u[1] : u \in ConfigUpdates }

\* value && typeof value === 'object' && k in value, then value = value[k],
\* along the keys from index i on
RECURSIVE ConfigWalk(_, _, _, _)
ConfigWalk(h, value, keys, i) ==
    IF i > Len(keys) THEN value
    ELSE IF value \in DOMAIN h /\ keys[i] \in DOMAIN h[value]
         THEN ConfigWalk(h, h[value][keys[i]], keys, i + 1)
         ELSE Missing

\* get(key)
ConfigGet(h, keys) ==
    LET value == ConfigWalk(h, "this.config", keys, 1)
        defaultValue == ConfigWalk(h, "this.defaultConfig", keys, 1)
    IN  IF value # Missing THEN value
        ELSE IF defaultValue # Missing THEN defaultValue
        ELSE "null"

\* updateConfig, one entry: the loop over keys[0..length-2] that sets current,
\* with {} stored where a key holds nothing, then the assignment of the value
RECURSIVE ConfigAssign(_, _, _, _, _)
ConfigAssign(h, current, keys, i, value) ==
    IF i = Len(keys)
    THEN [h EXCEPT ![current] = (keys[i] :> value) @@ @]
    ELSE IF keys[i] \in DOMAIN h[current]
         THEN ConfigAssign(h, h[current][keys[i]], keys, i + 1, value)
         ELSE LET fresh == "@" \o keys[i]
                  made == (fresh :> << >>) @@
                          [h EXCEPT ![current] = (keys[i] :> fresh) @@ @]
              IN  ConfigAssign(made, fresh, keys, i + 1, value)

\* the objects reached from this.config and this.defaultConfig
ConfigLive(h) ==
    {"this.config", "this.defaultConfig"}
      \cup UNION { { h[o][k] : k \in DOMAIN h[o] } \cap DOMAIN h :
                      o \in {"this.config", "this.defaultConfig"} }

\* JSON.stringify(this.config): the values of this.config, nested ones
\* written out
ConfigStringify(h) ==
    [k \in DOMAIN h["this.config"] |->
        IF h["this.config"][k] \in DOMAIN h THEN h[h["this.config"][k]]
        ELSE h["this.config"][k]]

InitConfig ==
    /\ impl = "config"
    /\ pc = "constructed"
    /\ cfg = [heap |-> ConfigHeap, cookie |-> << >>]
    /\ gridSize = 15
    /\ crossword = << >>
    /\ placedWords = << >>
    /\ localPlacedWords = << >>
    /\ blackSquareCount = 0
    /\ scan = <<0, 0>>
    /\ queue = << >>
    /\ result = NoResult
    /\ shown = << >>
    /\ words = << >>

\* updateConfig({ key: value }), saveToCookies included
ConfigUpdateConfig ==
    /\ impl = "config"
    /\ \E u \in ConfigUpdates :
          LET h == ConfigAssign(cfg.heap, "this.config", u[1], 1, u[2])
          IN  cfg' = [heap |-> h, cookie |-> ConfigStringify(h)]
    /\ pc' = "updated"
    /\ UNCHANGED <<impl, gridSize, crossword, placedWords, blackSquareCount,
                   scan, queue, result, shown, words, localPlacedWords>>

\* resetToDefaults: config = { ...this.defaultConfig } and the cookie deleted;
\* objects nothing refers to any more leave the heap
ConfigResetToDefaults ==
    /\ impl = "config"
    /\ LET h == [cfg.heap EXCEPT
                    !["this.config"] = cfg.heap["this.defaultConfig"]]
       IN  cfg' = [heap |-> [o \in ConfigLive(h) |-> h[o]],
                   cookie |-> << >>]
    /\ pc' = "reset"
    /\ UNCHANGED <<impl, gridSize, crossword, placedWords, blackSquareCount,
                   scan, queue, result, shown, words, localPlacedWords>>

NextConfig ==
    \/ ConfigUpdateConfig
    \/ ConfigResetToDefaults

SpecConfig == InitConfig /\ [][NextConfig]_vars

-----------------------------------------------------------------------------
(* Placement attempts on a generated puzzle: crossword.js 812-931.  The
   methods are called on the generator once generateCrossword has returned;
   each call is one attempt, and what it returns is kept in result. *)

\* the size of the puzzles the attempts are made on
JsTrySize == 4

\* the rows and columns tried: every index of the grid, one before, one after
JsTryCoords(n) == (0 - 1)..n

\* currentCell === '#' || (currentCell !== '' && currentCell !== word[i])
JsCellRefuses(cell, letter) ==
    cell = Block \/ (cell # Empty /\ cell # letter)

\* what an attempt yields: the grid afterwards, and whether a word came back
JsAttempt(g, ok) == [grid |-> g, ok |-> ok]

\* a variant that writes each letter as soon as its cell has been checked
JsTryPlaceHorizontalEager(g, n, word, row, col) ==
    IF col + Len(word) > n \/ row < 0 \/ row >= n THEN JsAttempt(g, FALSE)
    ELSE IF row >= Len(g) THEN JsAttempt(g, FALSE)
    ELSE LET bad == { i \in 1..Len(word) :
                        JsCellRefuses(At(g, row, col + i - 1), word[i]) }
             first == CHOOSE i \in bad : \A j \in bad : i <= j
         IN  IF bad = {}
             THEN JsAttempt(WriteWord(g, word, row, col, TRUE, 1), TRUE)
             ELSE JsAttempt(WriteWord(g, SubSeq(word, 1, first - 1),
                                      row, col, TRUE, 1), FALSE)

\* tryPlaceHorizontal(word, row, col): the bounds, the row's existence, the
\* loop over the cells, and only then the loop that writes
JsTryPlaceHorizontal(g, n, word, row, col) ==
    IF col + Len(word) > n \/ row < 0 \/ row >= n THEN JsAttempt(g, FALSE)
    ELSE IF row >= Len(g) THEN JsAttempt(g, FALSE)
    ELSE IF \E i \in 1..Len(word) :
               JsCellRefuses(At(g, row, col + i - 1), word[i])
    THEN JsAttempt(g, FALSE)
    ELSE JsAttempt(WriteWord(g, word, row, col, TRUE, 1), TRUE)

\* tryPlaceVertical(word, row, col)
JsTryPlaceVertical(g, n, word, row, col) ==
    IF row + Len(word) > n \/ col < 0 \/ col >= n THEN JsAttempt(g, FALSE)
    ELSE IF row < 0 \/ row >= Len(g) \/ row + Len(word) - 1 >= Len(g)
    THEN JsAttempt(g, FALSE)
    ELSE IF \E i \in 1..Len(word) :
               JsCellRefuses(At(g, row + i - 1, col), word[i])
    THEN JsAttempt(g, FALSE)
    ELSE JsAttempt(WriteWord(g, word, row, col, FALSE, 1), TRUE)

\* placeWordAtIntersection(word, { row, col, horizontal })
JsPlaceWordAtIntersection(g, n, word, row, col, horizontal) ==
    IF row < 0 \/ row >= n \/ col < 0 \/ col >= n THEN JsAttempt(g, FALSE)
    ELSE IF \/ row >= Len(g)
            \/ row + (IF horizontal THEN 0 ELSE Len(word) - 1) >= Len(g)
    THEN JsAttempt(g, FALSE)
    ELSE IF horizontal
    THEN IF col + Len(word) > n THEN JsAttempt(g, FALSE)
         ELSE IF \E i \in 1..Len(word) :
                    JsCellRefuses(At(g, row, col + i - 1), word[i])
         THEN JsAttempt(g, FALSE)
         ELSE JsAttempt(WriteWord(g, word, row, col, TRUE, 1), TRUE)
    ELSE IF row + Len(word) > n THEN JsAttempt(g, FALSE)
         ELSE IF \E i \in 1..Len(word) :
                    JsCellRefuses(At(g, row + i - 1, col), word[i])
         THEN JsAttempt(g, FALSE)
         ELSE JsAttempt(WriteWord(g, word, row, col, FALSE, 1), TRUE)

\* the word returned: { word, row, col, horizontal, number }, or null
JsTried(out, word, row, col, horizontal, placed) ==
    [kind |-> "tried", ok |-> out.ok, word |-> word, row |-> row,
     col |-> col, horizontal |-> horizontal, number |-> Len(placed) + 1]

\* puzzles of that size, asked for the most words
InitJSTry ==
    /\ InitJS
    /\ gridSize = JsTrySize
    /\ cfg.targetCount = JsMaxTargetCount

\* a call of tryPlaceHorizontal
JsCallTryPlaceHorizontal ==
    /\ impl = "js" /\ pc = "done"
    /\ \E k \in 1..Len(words), row \in JsTryCoords(gridSize),
          col \in JsTryCoords(gridSize) :
          LET out == JsTryPlaceHorizontal(crossword, gridSize, words[k],
                                          row, col)
          IN  /\ crossword' = out.grid
              /\ result' = JsTried(out, words[k], row, col, TRUE,
                                   placedWords)
    /\ pc' = "tried"
    /\ UNCHANGED <<impl, gridSize, cfg, placedWords, blackSquareCount, scan,
                   queue, shown, words, localPlacedWords>>

\* a call of tryPlaceVertical
JsCallTryPlaceVertical ==
    /\ impl = "js" /\ pc = "done"
    /\ \E k \in 1..Len(words), row \in JsTryCoords(gridSize),
          col \in JsTryCoords(gridSize) :
          LET out == JsTryPlaceVertical(crossword, gridSize, words[k],
                                        row, col)
          IN  /\ crossword' = out.grid
              /\ result' = JsTried(out, words[k], row, col, FALSE,
                                   placedWords)
    /\ pc' = "tried"
    /\ UNCHANGED <<impl, gridSize, cfg, placedWords, blackSquareCount, scan,
                   queue, shown, words, localPlacedWords>>

\* a call of placeWordAtIntersection
JsCallPlaceWordAtIntersection ==
    /\ impl = "js" /\ pc = "done"
    /\ \E k \in 1..Len(words), row \in JsTryCoords(gridSize),
          col \in JsTryCoords(gridSize), horizontal \in BOOLEAN :
          LET out == JsPlaceWordAtIntersection(crossword, gridSize, words[k],
                                               row, col, horizontal)
          IN  /\ crossword' = out.grid
              /\ result' = [JsTried(out, words[k], row, col, horizontal,
                                    placedWords)
                              EXCEPT !.kind = "intersection"]
    /\ pc' = "tried"
    /\ UNCHANGED <<impl, gridSize, cfg, placedWords, blackSquareCount, scan,
                   queue, shown, words, localPlacedWords>>

NextJSTry ==
    \/ NextJS
    \/ JsCallTryPlaceHorizontal
    \/ JsCallTryPlaceVertical
    \/ JsCallPlaceWordAtIntersection

SpecJSTry == InitJSTry /\ [][NextJSTry]_vars

-----------------------------------------------------------------------------
(* Claims *)

\* C1: in every grid state after initializeGrid, and in every puzzle
\* generateCrossword returns, the grid has exactly size rows of exactly size
\* cells and every cell is '#', '' or one letter.
C1_GridWellFormed ==
    (impl = "js" /\ pc # "start")
        => /\ WellFormed(crossword, gridSize)
           /\ (result.kind = "puzzle"
                  => WellFormed(result.grid, result.size))

\* C1 witness: a puzzle was returned that holds seeded and counted blocks, a
\* central word and a further word
C1_Witness ==
    /\ impl = "js"
    /\ result.kind = "puzzle"
    /\ Len(result.words) >= 2
    /\ BlockCount(result.grid) > 0
    /\ blackSquareCount > 0

\* C2: with symmetry enabled, after placeBlackSquares a cell is Block iff its
\* point mirror (size-1-r, size-1-c) is Block, whatever the random choices,
\* the cap and the validity checks were.
C2_BlocksSymmetric ==
    (impl = "proc" /\ cfg.symmetry /\ pc = "blocksDone")
        => Symmetric(crossword)

\* C3: with avoid2x2Blocks active, no grid state during or after block
\* placement holds a 2x2 sub-square of four Block cells.
C3_No2x2Blocks ==
    (impl = "proc" /\ cfg.avoid2x2Blocks) => ~Has2x2(crossword)

\* C4: with avoidCorners set, none of the four corner cells is Block once
\* block placement (seed pass and pattern/scan pass) has finished.
C4_NoCornerBlocks ==
    (impl = "js" /\ cfg.avoidCorners /\ pc = "anchor")
        => ~CornerBlocked(crossword)

\* C6: no word placement writes a letter into a Block cell: a cell that is
\* '#' stays '#' in every step of generation.
C6_BlocksStay ==
    [][impl = "js"
         => \A p \in Cells(Len(crossword)) :
               At(crossword, p[1], p[2]) = Block
                   => At(crossword', p[1], p[2]) = Block]_vars

\* the cells a placed word covers, in order
WordCells(w) ==
    [i \in 1..Len(w.word) |->
        IF w.horizontal THEN <<w.row, w.col + i - 1>>
        ELSE <<w.row + i - 1, w.col>>]

\* C5: in the returned puzzle every placed word lies inside the grid and its
\* i-th cell holds its i-th letter, after anchor and mirrored-counterpart
\* placements as after any other.
C5_WordsMatchGrid ==
    (impl = "core" /\ result.kind = "puzzle")
        => \A k \in 1..Len(result.words) :
              \A i \in 1..Len(result.words[k].word) :
                 LET cell == WordCells(result.words[k])[i]
                 IN  /\ cell \in Cells(result.size)
                     /\ At(result.grid, cell[1], cell[2])
                           = result.words[k].word[i]

\* C7: with ensureConnectivity set, the returned puzzle has its non-Block
\* cells in exactly one 4-connected region or carries a connectivity
\* warning.
C7_ConnectedOrWarned ==
    (impl = "js" /\ cfg.ensureConnectivity /\ result.kind = "puzzle")
        => \/ AreaCount(result.grid) = 1
           \/ "warning" \in DOMAIN result

\* q comes before p in row-major order
RowMajorBefore(q, p) == q[1] < p[1] \/ (q[1] = p[1] /\ q[2] < p[2])

\* C10: the number getCellNumber gives a word-start cell is 1 plus the
\* number of word-start cells before it in row-major order over the whole
\* grid.
C10_CellNumberRowMajor ==
    (impl = "js" /\ pc = "rendered")
        => \A p \in Cells(result.size) :
              shown[p] # NoNumber
                  => shown[p] = 1 + Cardinality(
                        { q \in Cells(result.size) :
                            /\ RowMajorBefore(q, p)
                            /\ JsShouldShowNumber(result.grid, result.size,
                                                  q[1], q[2]) })

\* the start cell of a placed word
StartCell(w) == <<w.row, w.col>>

\* C8: once renumberWordsSequentially has run, the k-th placed word carries
\* the number k, so the numbers are 1..n, and a word whose start cell comes
\* earlier in row-major order carries a strictly smaller number than a word
\* whose start cell comes later, whatever the order the words were inserted in
C8_NumbersFollowStartOrder ==
    (impl = "smart" /\ pc \in {"boundaries", "fill", "done"}) =>
        /\ \A k \in 1..Len(placedWords) : placedWords[k].number = k
        /\ \A a, b \in 1..Len(placedWords) :
              RowMajorBefore(StartCell(placedWords[a]),
                             StartCell(placedWords[b]))
                  => placedWords[a].number < placedWords[b].number
        /\ result.kind = "puzzle" => result.words = placedWords

\* a returned puzzle in which the central word, inserted first, is numbered
\* after a word that starts earlier in row-major order
C8_Witness ==
    /\ impl = "smart" /\ pc = "done" /\ result.kind = "puzzle"
    /\ \E k \in 2..Len(result.words) :
          /\ result.words[k].word = SmartCentralWord(words)
          /\ result.words[k].number = k
          /\ RowMajorBefore(StartCell(result.words[1]),
                            StartCell(result.words[k]))

\* C9: in a returned puzzle, an Across word and a Down word that start in the
\* same cell carry the same number
C9_SharedStartSharesNumber ==
    (impl = "smart" /\ result.kind = "puzzle") =>
        \A a, b \in 1..Len(result.words) :
            (/\ result.words[a].horizontal
             /\ ~result.words[b].horizontal
             /\ StartCell(result.words[a]) = StartCell(result.words[b]))
                => result.words[a].number = result.words[b].number

\* C11: in the puzzle returned by the crossword.js pipeline, the placed words
\* are listed by non-decreasing number, and two words that start in different
\* cells never carry the same number
C11_OrderedDistinctNumbers ==
    (impl = "js" /\ result.kind = "puzzle") =>
        /\ \A k \in 1..(Len(result.words) - 1) :
              result.words[k].number <= result.words[k + 1].number
        /\ \A a, b \in 1..Len(result.words) :
              StartCell(result.words[a]) # StartCell(result.words[b])
                  => result.words[a].number # result.words[b].number

\* C12: when the central word does not fit horizontally on the middle row,
\* generation ends in an error and no puzzle is returned
C12_UnseatedAnchorFails ==
    (impl = "smart"
     /\ ~SmartWordFits(gridSize,
                       Placement(SmartCentralWord(words), gridSize \div 2,
                                 Max(0, (gridSize \div 2)
                                        - (Len(SmartCentralWord(words)) \div 2)),
                                 TRUE)))
        => result.kind # "puzzle"

\* the minimum viable number of placed words
MinViableWords == 5

\* C13: a puzzle is returned only when at least the minimum viable number of
\* words is placed, whatever the size of the selected word list
C13_FewWordsFail ==
    (impl = "smart" /\ result.kind = "puzzle")
        => Len(result.words) >= MinViableWords

\* a word that counts for the pool: alphabetic, its length within
\* [minLength, maxLength]
Qualifies(w, c) ==
    IsAlphabetic(w) /\ Len(w) >= c.minLength /\ Len(w) <= c.maxLength

\* C14: when no supplied word is alphabetic with a length within
\* [minLength, maxLength], generation ends in an error and never reaches the
\* placement of words
C14_EmptyPoolFails ==
    (impl = "js" /\ \A k \in 1..Len(words) : ~Qualifies(words[k], cfg))
        => /\ pc \notin {"anchor", "words", "done", "rendered"}
           /\ result.kind # "puzzle"

\* C15: a configuration whose grid size lies outside [minSize, maxSize], or
\* whose black-square percentage lies outside [minPercentage, maxPercentage],
\* is rejected before a grid is initialized, a block placed or a word placed
C15_BadConfigRejected ==
    (impl = "js"
     /\ "minSize" \in DOMAIN cfg
     /\ (\/ gridSize < cfg.minSize \/ gridSize > cfg.maxSize
         \/ cfg.percentage < cfg.minPercentage
         \/ cfg.percentage > cfg.maxPercentage))
        => /\ crossword = << >>
           /\ placedWords = << >>
           /\ result.kind # "puzzle"

\* C16: with grid size 5 and targetCount 1, generation on a non-empty pool
\* ends without error, and the puzzle returned has exactly one placed word,
\* all of whose letters stand in cells of the 5x5 grid
C16_SingleWordPuzzle ==
    (impl = "js" /\ gridSize = 5 /\ cfg.targetCount = 1 /\ Len(words) > 0
     /\ pc \in {"done", "rendered", "failed"})
        => /\ result.kind = "puzzle"
           /\ Len(result.words) = 1
           /\ \A i \in 1..Len(result.words[1].word) :
                 LET cell == WordCells(result.words[1])[i]
                 IN  /\ cell \in Cells(5)
                     /\ At(result.grid, cell[1], cell[2])
                            = result.words[1].word[i]

\* words.slice(...) of selectWordsForPuzzle, as the placement step calls it
SelectedForPuzzle == JsSelectWordsForPuzzle(words, cfg)

\* C18: the selection made for the puzzle holds at most targetCount words,
\* each taken from the pool of words whose length is within
\* [minLength, maxLength], and no word twice
C18_SelectionWithinTarget ==
    (impl = "js" /\ pc \in {"words", "done", "rendered"}) =>
        /\ Len(SelectedForPuzzle) <= cfg.targetCount
        /\ \A k \in 1..Len(SelectedForPuzzle) :
              /\ \E j \in 1..Len(words) : words[j] = SelectedForPuzzle[k]
              /\ Qualifies(SelectedForPuzzle[k], cfg)
        /\ \A j, k \in 1..Len(SelectedForPuzzle) :
              j # k => SelectedForPuzzle[j] # SelectedForPuzzle[k]

\* C19: the puzzle returned lists at most targetCount placed words, the
\* central word included
C19_PlacedWithinTarget ==
    (impl = "js" /\ result.kind = "puzzle")
        => Len(result.words) <= cfg.targetCount

\* the word a loader is to retain: alphabetic, its length within
\* [minLength, maxLength], at least one vowel, no run of 4 or more
\* consonants, no run of 3 or more vowels, not one letter repeated
Retainable(w, c) ==
    /\ Qualifies(w, c)
    /\ \E i \in 1..Len(w) : w[i] \in Vowels
    /\ ~HasRun(w, Consonants, 4)
    /\ ~HasRun(w, Vowels, 3)
    /\ ~(\A i \in 1..Len(w) : w[i] = w[1])

\* C17: the word loader retains a record's word exactly when the word is
\* alphabetic, its length is within [minLength, maxLength], it has a vowel,
\* no run of 4 or more consonants, no run of 3 or more vowels, and is not a
\* single letter repeated
C17_LoaderRetainsExactly ==
    [][(impl = "smartload" /\ queue # << >>)
          => ((words' = Append(words, Head(queue)))
                 <=> Retainable(Head(queue), cfg))]_vars

\* the puzzle of a call that has returned
Returned(res, c) == res.calls[c].at \in {"returned", "rendered"}

\* C20: when generateCrossword calls on one application overlap, a puzzle
\* already returned is not changed by anything a later call does, and every
\* letter in the grid of a returned puzzle lies in a cell of one of that
\* puzzle's own placed words, which are words of the word file
C20_CallsKeepTheirPuzzles ==
    [][impl = "js" /\ result.kind = "app" =>
         \A c \in Calls :
            /\ (Returned(result, c) /\ Returned(result', c)) =>
                  /\ PuzzleGrid(result', pc', crossword', c)
                        = PuzzleGrid(result, pc, crossword, c)
                  /\ PuzzleWords(result', pc', placedWords', c)
                        = PuzzleWords(result, pc, placedWords, c)
            /\ Returned(result', c) =>
                  LET grid == PuzzleGrid(result', pc', crossword', c)
                      ws == PuzzleWords(result', pc', placedWords', c)
                  IN  /\ \A p \in Cells(gridSize) :
                            At(grid, p[1], p[2]) \in Alphabet =>
                               \E k \in 1..Len(ws) :
                                  \E i \in 1..Len(ws[k].word) :
                                     /\ WordCells(ws[k])[i] = p
                                     /\ ws[k].word[i] = At(grid, p[1], p[2])
                      /\ \A k \in 1..Len(ws) :
                            \E j \in 1..Len(result.file) :
                               result.file[j] = ws[k].word]_vars

\* both calls have returned a puzzle, the second having started while the
\* first was suspended on the fetch, and the two puzzles differ
C20_Witness ==
    /\ impl = "js" /\ result.kind = "app"
    /\ \A c \in Calls : Returned(result, c)
    /\ \E c \in Calls : result.calls[c].overlapped
    /\ PuzzleGrid(result, pc, crossword, 1)
          # PuzzleGrid(result, pc, crossword, 2)
    /\ Len(PuzzleWords(result, pc, placedWords, 1)) > 0
    /\ Len(PuzzleWords(result, pc, placedWords, 2)) > 0

\* C21: one load-and-generate request starts generateCrossword at most once
\* and runs the generation pipeline at most once; when loadWordsFromCSV has
\* settled, whether the fetch succeeded or failed, generateCrossword was
\* started exactly once, also when the generation raised an error
C21_GeneratesOnce ==
    impl = "procload" =>
        /\ result.started <= 1
        /\ result.pipelines <= 1
        /\ pc \in {"done", "rejected"} => result.started = 1

\* C22: updateConfig never changes the stored defaults, dotted keys included,
\* and right after resetToDefaults get(path) returns the original default
\* value for every path
C22_ResetRestoresDefaults ==
    impl = "config" =>
        /\ \A p \in ConfigPaths :
              ConfigWalk(cfg.heap, "this.defaultConfig", p, 1)
                  = ConfigWalk(ConfigHeap, "this.defaultConfig", p, 1)
        /\ pc = "reset" =>
              \A p \in ConfigPaths :
                  ConfigGet(cfg.heap, p) = ConfigGet(ConfigHeap, p)

\* C23: while placeBlackSquares runs and when it has returned, seed positions
\* and scan pass alike, the cells that are not Block form exactly one
\* 4-connected region
C23_BlocksKeepOneRegion ==
    (\/ impl = "core" /\ pc \in {"strategic", "scan", "words"}
     \/ impl = "js" /\ pc \in {"blocks", "fill", "anchor"})
        => AreaCount(crossword) = 1

\* C24: when placeBlackSquares has returned, the number of Block cells of the
\* grid, those of the seed pass included, is at most
\* floor(size * size * targetDensity)
C24_BlocksWithinDensity ==
    /\ (impl = "core" /\ pc = "words")
          => BlockCount(crossword) <= CoreMaxBlackSquares(gridSize, cfg)
    /\ (impl = "js" /\ pc = "anchor")
          => BlockCount(crossword) <= JsMaxBlackSquares(gridSize, cfg)
    /\ (impl = "proc" /\ pc = "blocksDone")
          => BlockCount(crossword) <= cfg.maxBlackSquares

\* the anchor of a selected word list: its first word of five letters or
\* more, or its first word when it has none
AnchorOf(selected) ==
    LET long == {k \in 1..Len(selected) : Len(selected[k]) >= 5}
    IN  IF long = {} THEN selected[1]
        ELSE selected[CHOOSE k \in long : \A j \in long : k <= j]

\* the anchor of a selected word list is the first entry of the placed list
\* placed: Across, on row floor(size/2), from column
\* floor(size/2) - floor(len/2)
AnchorLeads(selected, placed, n) ==
    /\ placed # << >>
    /\ placed[1].word = AnchorOf(selected)
    /\ placed[1].horizontal
    /\ placed[1].row = n \div 2
    /\ placed[1].col = (n \div 2) - (Len(AnchorOf(selected)) \div 2)

\* C25: once the anchor step has run, the anchor (the first selected word of
\* length >= 5, or the first selected word) is the first entry of the placed
\* list, Across on row floor(size/2) from column floor(size/2) - floor(len/2)
C25_AnchorCentred ==
    /\ (impl = "smart" /\ pc = "words")
          => AnchorLeads(words, placedWords, gridSize)
    /\ (impl = "js" /\ pc = "words")
          => AnchorLeads(JsSelectWordsForPuzzle(words, cfg),
                         localPlacedWords, gridSize)

\* the cell that holds the letter of index i (from 0) of a placed word
LetterCell(p, i) ==
    IF p.horizontal THEN <<p.row, p.col + i>> ELSE <<p.row + i, p.col>>

\* the placement findBestIntersectionPlacement returns for the next word came
\* out of its intersection search
FoundByIntersection ==
    LET ps == SmartIntersectionPlacements(gridSize, placedWords, Head(queue), 1)
    IN  /\ \A m \in 1..Len(ps) :
              ~(SmartInBounds(gridSize, ps[m])
                /\ SmartOverwriteThrows(crossword, ps[m]))
        /\ \E m \in 1..Len(ps) :
              SmartIsValidPlacement(crossword, gridSize, placedWords, ps[m])

ParallelAdjacent(a, b) ==
    LET LineOf(w) == IF w.horizontal THEN w.row ELSE w.col
        First(w) == IF w.horizontal THEN w.col ELSE w.row
        Last(w) == First(w) + Len(w.word) - 1
    IN  /\ a.horizontal = b.horizontal
        /\ Abs(LineOf(a) - LineOf(b)) <= 1
        /\ ~(Last(a) + 1 < First(b) \/ Last(b) + 1 < First(a))

\* C27: in every state of word placement and after it, no two placed words
\* are parallel-adjacent, whichever search placed them
C27_NoParallelAdjacent ==
    impl = "smart" =>
        \A a, b \in 1..Len(placedWords) :
            a # b => ~ParallelAdjacent(placedWords[a], placedWords[b])

\* the cells a placed word or a candidate covers
CoveredCells(p) == { LetterCell(p, i) : i \in 0..(Len(p.word) - 1) }

\* the candidate c crosses the placed word p: they lie orthogonally and have
\* a cell in common
Crosses(c, p) ==
    c.horizontal # p.horizontal /\ CoveredCells(c) \cap CoveredCells(p) # {}

\* 2*len(w) + 10*(placed words the candidate crosses)
\*   + (size - Manhattan distance from the grid centre)
StatedScore(n, placed, c) ==
    2 * Len(c.word)
    + 10 * Cardinality({k \in 1..Len(placed) : Crosses(c, placed[k])})
    + (n - (Abs(c.row - n \div 2) + Abs(c.col - n \div 2)))

\* the legal candidates of the intersection search for the next word, in
\* enumeration order
LegalCandidates ==
    LET ps == SmartIntersectionPlacements(gridSize, placedWords, Head(queue), 1)
        Legal(c) == SmartIsValidPlacement(crossword, gridSize, placedWords, c)
    IN  SelectSeq(ps, Legal)

\* C28: calculatePlacementScore gives every legal candidate the stated score,
\* and findBestIntersectionPlacement returns the first legal candidate, in
\* enumeration order, of maximum score
C28_BestScoreFirst ==
    (impl = "smart" /\ SmartLoopRuns /\ FoundByIntersection) =>
        LET cs == LegalCandidates
            chosen == SmartFindBestIntersectionPlacement(
                          crossword, gridSize, placedWords, Head(queue))
        IN  /\ \A m \in 1..Len(cs) :
                  SmartCalculatePlacementScore(gridSize, placedWords, cs[m])
                      = StatedScore(gridSize, placedWords, cs[m])
            /\ \E m \in 1..Len(cs) :
                  /\ cs[m] = chosen
                  /\ \A j \in 1..Len(cs) :
                        /\ StatedScore(gridSize, placedWords, cs[j])
                              <= StatedScore(gridSize, placedWords, cs[m])
                        /\ j < m =>
                              StatedScore(gridSize, placedWords, cs[j])
                                 < StatedScore(gridSize, placedWords, cs[m])

\* C29: the loop of placeWordsWithSymmetry over the remaining words ends only
\* when its queue is exhausted or targetCount words are placed: when it has
\* returned, no word is left unattempted while fewer than targetCount words
\* are placed
C29_LoopAttemptsEveryWord ==
    (impl = "core" /\ pc \in {"connect", "done"}) =>
        (queue = << >> \/ Len(localPlacedWords) >= cfg.targetCount)

\* C30: a placement attempt that is rejected (out of bounds, a Block in a
\* target cell, a conflicting letter) leaves every grid cell and the
\* placed-word list unchanged, and a word dropped after all its attempts
\* failed has changed no cell
C30_RejectedAttemptChangesNothing ==
    [][ (/\ impl = "js"
         /\ \/ (pc' = "tried" /\ ~result'.ok)
            \/ /\ pc = "words" /\ pc' = "words"
               /\ Len(localPlacedWords') = Len(localPlacedWords))
        => /\ crossword' = crossword
           /\ placedWords' = placedWords
           /\ localPlacedWords' = localPlacedWords ]_vars

\* an attempt along a row, inside the grid, refused at a Block or at another
\* letter after cells that were free
C30_Witness ==
    /\ impl = "js" /\ pc = "tried"
    /\ ~result.ok
    /\ result.horizontal
    /\ result.row >= 0 /\ result.row < gridSize
    /\ result.col >= 0 /\ result.col + Len(result.word) <= gridSize
    /\ At(crossword, result.row, result.col) = Empty
    /\ \E i \in 2..Len(result.word) :
          At(crossword, result.row, result.col + i - 1) = Block
    /\ \E p \in Cells(gridSize) :
          At(crossword, p[1], p[2]) \notin {Empty, Block}

====
